---------------------------- MODULE Spec2Model ----------------------------
(***************************************************************************)
(* A model of the Centurion wrapper classes: cen::thread, cen::semaphore,  *)
(* centurion::font_cache (used by one caller, and by several at once),     *)
(* centurion::surface, the constructors and the optional-returning         *)
(* queries of the wrappers of native resources, cen::color, the rectangle  *)
(* functions, cen::keyboard_event, centurion::input::key_state and         *)
(* centurion::SoundEffect.  Each component has its own variables, its own  *)
(* next-state relation and its own specification; a component's actions    *)
(* leave the variables of the other components unchanged.                  *)
(***************************************************************************)
EXTENDS Integers, Sequences, FiniteSets, TLC

VARIABLES
  thread,        \* thread objects: life cycle, m_thread, m_joined, m_detached
  native,        \* the native (SDL) threads behind the thread objects
  thPc,          \* where the calling thread is: idle, or blocked in SDL_WaitThread
  thLast,        \* the last call on a thread object that returned, with its result
  assertFailed,  \* whether an assert(m_detached != m_joined) has failed
  semaphore,     \* the semaphore object and the token count of its SDL_sem
  semBlocked,    \* the callers blocked inside semaphore::acquire()
  semHist,       \* what has happened to the semaphore since its construction
  semLast,       \* the last call on the semaphore that returned, with its result
  cacheLife,     \* whether the font_cache object has been constructed
  m_font,        \* the font of the cache: the glyphs it provides, its style
  m_glyphs,      \* font_cache::m_glyphs: glyph -> glyph_data
  m_strings,     \* font_cache::m_strings: hash_id -> texture
  textures,      \* the number of textures created so far
  fcLast,        \* the last call on the font cache, with its arguments
  fcCaller,      \* the callers inside font_cache::add_glyph, past its check
  fcCreated,     \* glyph -> the number of textures created for it
  fcOverlap,     \* glyph -> whether two callers were past the check for it at once
  wrapped,       \* object -> the wrapper there: its class, its native pointer
  wrLast,        \* the last constructor or query call, with its outcome
  surfaces,      \* surface objects: life cycle and m_surface
  sdlSurface,    \* the native surfaces: whether allocated, how often freed
  sfLast,        \* the last call on a surface object, with its outcome
  terminated,    \* whether std::terminate has ended the program
  colLast,       \* the call of a color function: its arguments and its result
  rectLast,      \* the call of a rectangle function: its arguments and its result
  keyboard_event, \* the keyboard event: whether constructed, and its keysym.mod
  kbLast,        \* the last set_modifier call on the event: its modifier and flag
  keyboard,      \* the keyboard state array of SDL that m_states points to
  key_state,     \* the key_state object: whether constructed, m_previousStates, m_nKeys
  ksAtUpdate,    \* the keyboard state as it was at the last update() of the key_state
  sound_effect,  \* the sound effect: whether constructed, the volume of its chunk
  seLast         \* the last set_volume call on the sound effect, with its argument

thVars == <<thread, native, thPc, thLast, assertFailed>>

semVars == <<semaphore, semBlocked, semHist, semLast>>

fcVars == <<cacheLife, m_font, m_glyphs, m_strings, textures, fcLast>>

raceVars == <<fcCaller, fcCreated, fcOverlap>>

wrVars == <<wrapped, wrLast>>

sfVars == <<surfaces, sdlSurface, sfLast, terminated>>

colVars == <<colLast>>

rectVars == <<rectLast>>

kbVars == <<keyboard_event, kbLast>>

ksVars == <<keyboard, key_state, ksAtUpdate>>

seVars == <<sound_effect, seLast>>

vars == <<thVars, semVars, fcVars, raceVars, wrVars, sfVars, colVars, rectVars, kbVars, ksVars, seVars>>

\* What a step of one component leaves alone: the other components.
notThread == <<semVars, fcVars, raceVars, wrVars, sfVars, colVars, rectVars, kbVars, ksVars, seVars>>

notSemaphore == <<thVars, fcVars, raceVars, wrVars, sfVars, colVars, rectVars, kbVars, ksVars, seVars>>

notFontCache == <<thVars, semVars, raceVars, wrVars, sfVars, colVars, rectVars, kbVars, ksVars, seVars>>

notRace == <<thVars, semVars, wrVars, sfVars, colVars, rectVars, kbVars, ksVars, seVars>>

notWrapper == <<thVars, semVars, fcVars, raceVars, sfVars, colVars, rectVars, kbVars, ksVars, seVars>>

notSurface == <<thVars, semVars, fcVars, raceVars, wrVars, colVars, rectVars, kbVars, ksVars, seVars>>

notColor == <<thVars, semVars, fcVars, raceVars, wrVars, sfVars, rectVars, kbVars, ksVars, seVars>>

notRect == <<thVars, semVars, fcVars, raceVars, wrVars, sfVars, colVars, kbVars, ksVars, seVars>>

notKeyboard == <<thVars, semVars, fcVars, raceVars, wrVars, sfVars, colVars, rectVars, ksVars, seVars>>

notKeyState == <<thVars, semVars, fcVars, raceVars, wrVars, sfVars, colVars, rectVars, kbVars, seVars>>

notSound == <<thVars, semVars, fcVars, raceVars, wrVars, sfVars, colVars, rectVars, kbVars, ksVars>>

(***************************************************************************)
(*                              cen::thread                                *)
(***************************************************************************)

\* The number of thread objects of the model.
NumThreads == 2

\* The largest status code a task returns.
MaxStatus == 2

Threads == 1..NumThreads

StatusCodes == 0..MaxStatus

\* The null pointer.
NULL == 0

\* A thread object before its constructor has run: the member initialisers
\* of the class.
thread_members == [life |-> "unborn", m_thread |-> NULL,
                   m_joined |-> FALSE, m_detached |-> FALSE]

\* A native thread that does not exist yet.  waitCalls and detachCalls count
\* the SDL_WaitThread and SDL_DetachThread calls made on it.
native_absent == [run |-> "absent", handle |-> "none", status |-> 0,
                  waitCalls |-> 0, detachCalls |-> 0]

thIdle == [at |-> "idle", t |-> NULL]

ThreadInit ==
  /\ thread = [t \in Threads |-> thread_members]
  /\ native = [t \in Threads |-> native_absent]
  /\ thPc = thIdle
  /\ thLast = [op |-> "none", t |-> NULL, ret |-> 0, waited |-> FALSE]
  /\ assertFailed = FALSE

joinable_ignores_detach(t) == ~thread[t].m_joined

\* thread::joinable
joinable(t) == ~thread[t].m_joined /\ ~thread[t].m_detached

\* thread::was_joined
was_joined(t) == thread[t].m_joined

\* thread::was_detached
was_detached(t) == thread[t].m_detached

\* SDL_DetachThread(m_thread): the native thread cleans up after itself.
SDL_DetachThread(n) ==
  [n EXCEPT !.handle = "detached", !.detachCalls = @ + 1]

\* Entering SDL_WaitThread(m_thread, &status): the caller blocks until the
\* native thread has finished.
SDL_WaitThread_enter(n) == [n EXCEPT !.waitCalls = @ + 1]

\* SDL_WaitThread returning: the native thread is reaped.
SDL_WaitThread_leave(n) == [n EXCEPT !.handle = "waited"]

\* assert(m_detached != m_joined)
assert_flags(o) == o.m_detached # o.m_joined

\* thread::thread: SDL_CreateThread returns the native thread, or null (ok is
\* FALSE), and then the constructor throws and no object exists.
thread_ctor(t, ok) ==
  /\ thPc.at = "idle"
  /\ thread[t].life = "unborn"
  /\ IF ok
       THEN /\ thread' = [thread EXCEPT ![t].life = "alive", ![t].m_thread = t]
            /\ native' = [native EXCEPT ![t].run = "running", ![t].handle = "open"]
            /\ thLast' = [op |-> "ctor", t |-> t, ret |-> 0, waited |-> FALSE]
       ELSE /\ thread' = [thread EXCEPT ![t].life = "failed"]
            /\ thLast' = [op |-> "ctor_throw", t |-> t, ret |-> 0, waited |-> FALSE]
            /\ UNCHANGED native
  /\ UNCHANGED <<thPc, assertFailed>>
  /\ UNCHANGED notThread

\* The task of native thread t returns status code s.
task_returns(t, s) ==
  /\ native[t].run = "running"
  /\ native' = [native EXCEPT ![t].run = "finished", ![t].status = s]
  /\ UNCHANGED <<thread, thPc, thLast, assertFailed>>
  /\ UNCHANGED notThread

detach_noguard(t) ==
  /\ thPc.at = "idle"
  /\ thread[t].life = "alive"
  /\ native' = [native EXCEPT ![t] = SDL_DetachThread(@)]
  /\ thread' = [thread EXCEPT ![t].m_detached = TRUE]
  /\ assertFailed' = (assertFailed \/ ~assert_flags(thread'[t]))
  /\ thLast' = [op |-> "detach", t |-> t, ret |-> 0, waited |-> FALSE]
  /\ UNCHANGED thPc
  /\ UNCHANGED notThread

\* thread::detach
detach(t) ==
  /\ thPc.at = "idle"
  /\ thread[t].life = "alive"
  /\ IF thread[t].m_joined \/ thread[t].m_detached
       THEN UNCHANGED <<thread, native, assertFailed>>
       ELSE /\ native' = [native EXCEPT ![t] = SDL_DetachThread(@)]
            /\ thread' = [thread EXCEPT ![t].m_detached = TRUE]
            /\ assertFailed' = (assertFailed \/ ~assert_flags(thread'[t]))
  /\ thLast' = [op |-> "detach", t |-> t, ret |-> 0, waited |-> FALSE]
  /\ UNCHANGED thPc
  /\ UNCHANGED notThread

join_noguard(t) ==
  /\ thPc.at = "idle"
  /\ thread[t].life = "alive"
  /\ native' = [native EXCEPT ![t] = SDL_WaitThread_enter(@)]
  /\ thPc' = [at |-> "join", t |-> t]
  /\ UNCHANGED <<thread, thLast, assertFailed>>
  /\ UNCHANGED notThread

\* thread::join, up to its return or to the point where it blocks in
\* SDL_WaitThread.
join(t) ==
  /\ thPc.at = "idle"
  /\ thread[t].life = "alive"
  /\ IF thread[t].m_joined \/ thread[t].m_detached
       THEN /\ thLast' = [op |-> "join", t |-> t, ret |-> 0, waited |-> FALSE]
            /\ UNCHANGED <<native, thPc>>
       ELSE /\ native' = [native EXCEPT ![t] = SDL_WaitThread_enter(@)]
            /\ thPc' = [at |-> "join", t |-> t]
            /\ UNCHANGED thLast
  /\ UNCHANGED <<thread, assertFailed>>
  /\ UNCHANGED notThread

\* thread::join from the return of SDL_WaitThread, which happens once the
\* native thread has finished, to the return of join.
join_return(t) ==
  /\ thPc = [at |-> "join", t |-> t]
  /\ native[t].run = "finished"
  /\ native' = [native EXCEPT ![t] = SDL_WaitThread_leave(@)]
  /\ thread' = [thread EXCEPT ![t].m_joined = TRUE]
  /\ assertFailed' = (assertFailed \/ ~assert_flags(thread'[t]))
  /\ thLast' = [op |-> "join", t |-> t, ret |-> native[t].status, waited |-> TRUE]
  /\ thPc' = thIdle
  /\ UNCHANGED notThread

thread_dtor_nojoin(t) ==
  /\ thPc.at = "idle"
  /\ thread[t].life = "alive"
  /\ thread' = [thread EXCEPT ![t].life = "destroyed"]
  /\ thLast' = [op |-> "dtor", t |-> t, ret |-> 0, waited |-> FALSE]
  /\ UNCHANGED <<native, thPc, assertFailed>>
  /\ UNCHANGED notThread

\* thread::~thread, up to its end or to the point where the join() it calls
\* blocks in SDL_WaitThread.
thread_dtor(t) ==
  /\ thPc.at = "idle"
  /\ thread[t].life = "alive"
  /\ IF joinable(t)
       THEN /\ native' = [native EXCEPT ![t] = SDL_WaitThread_enter(@)]
            /\ thread' = [thread EXCEPT ![t].life = "dying"]
            /\ thPc' = [at |-> "dtor", t |-> t]
            /\ UNCHANGED thLast
       ELSE /\ thread' = [thread EXCEPT ![t].life = "destroyed"]
            /\ thLast' = [op |-> "dtor", t |-> t, ret |-> 0, waited |-> FALSE]
            /\ UNCHANGED <<native, thPc>>
  /\ UNCHANGED assertFailed
  /\ UNCHANGED notThread

\* thread::~thread from the return of SDL_WaitThread inside join() to the end
\* of the destructor.
thread_dtor_return(t) ==
  /\ thPc = [at |-> "dtor", t |-> t]
  /\ native[t].run = "finished"
  /\ native' = [native EXCEPT ![t] = SDL_WaitThread_leave(@)]
  /\ thread' = [thread EXCEPT ![t].m_joined = TRUE, ![t].life = "destroyed"]
  /\ assertFailed' = (assertFailed \/ ~assert_flags(thread'[t]))
  /\ thLast' = [op |-> "dtor", t |-> t, ret |-> 0, waited |-> TRUE]
  /\ thPc' = thIdle
  /\ UNCHANGED notThread

ThreadNext ==
  \/ \E t \in Threads, ok \in BOOLEAN : thread_ctor(t, ok)
  \/ \E t \in Threads, s \in StatusCodes : task_returns(t, s)
  \/ \E t \in Threads : detach(t)
  \/ \E t \in Threads : join(t)
  \/ \E t \in Threads : join_return(t)
  \/ \E t \in Threads : thread_dtor(t)
  \/ \E t \in Threads : thread_dtor_return(t)

(***************************************************************************)
(*                     Properties of cen::thread                           *)
(***************************************************************************)

\* C1: a thread object destroyed while still joinable (no join() or detach()
\* has taken effect) has its destructor enter the native wait, and its
\* destruction completes only once the native thread has finished and has
\* been waited for; a thread object destroyed after a join or a detach is
\* destroyed at once, with no native wait.
C1_DestructorJoinsIfJoinable ==
  [][\A t \in Threads :
       /\ (thread[t].life = "alive" /\ thread'[t].life # "alive") =>
            IF ~was_joined(t) /\ ~was_detached(t)
              THEN /\ thread'[t].life = "dying"
                   /\ native'[t].waitCalls = native[t].waitCalls + 1
                   /\ thPc' = [at |-> "dtor", t |-> t]
              ELSE /\ thread'[t].life = "destroyed"
                   /\ native'[t] = native[t]
                   /\ thPc' = thIdle
       /\ (thread[t].life # "destroyed" /\ thread'[t].life = "destroyed") =>
            \/ /\ thread[t].life = "alive"
               /\ was_joined(t) \/ was_detached(t)
            \/ /\ thread[t].life = "dying"
               /\ native[t].run = "finished"
               /\ native[t].waitCalls = 1
               /\ native'[t].handle = "waited"
  ]_vars

\* C1 witness: a destructor has just completed after waiting for its native
\* thread, and another thread object was destroyed after a detach, unwaited.
C1_Witness ==
  /\ thLast.op = "dtor" /\ thLast.waited
  /\ thread[thLast.t].life = "destroyed"
  /\ native[thLast.t].handle = "waited"
  /\ \E u \in Threads : /\ thread[u].life = "destroyed"
                        /\ was_detached(u)
                        /\ native[u].waitCalls = 0

\* C2: detach() on a thread already joined or detached changes neither flag
\* and makes no native detach call; detach() on a joinable thread makes one
\* native detach call and sets was_detached(); no other thread is touched.
C2_DetachEffect ==
  [][\A t \in Threads :
       detach(t) =>
         /\ IF was_joined(t) \/ was_detached(t)
              THEN /\ was_joined(t)' = was_joined(t)
                   /\ was_detached(t)' = was_detached(t)
                   /\ native'[t] = native[t]
              ELSE /\ was_detached(t)'
                   /\ was_joined(t)' = was_joined(t)
                   /\ native'[t].detachCalls = native[t].detachCalls + 1
                   /\ native'[t].handle = "detached"
         /\ \A u \in Threads \ {t} :
              thread'[u] = thread[u] /\ native'[u] = native[u]
  ]_vars

\* C2 witness: detach() has just returned on a thread that had been joined,
\* and another thread has been detached by exactly one native call.
C2_Witness ==
  /\ thLast.op = "detach"
  /\ was_joined(thLast.t) /\ ~was_detached(thLast.t)
  /\ native[thLast.t].detachCalls = 0
  /\ \E u \in Threads : was_detached(u) /\ native[u].detachCalls = 1

\* C3: join() on a thread already joined or detached returns 0, makes no
\* native wait and changes neither flag; join() on a joinable thread enters
\* the native wait, returns only once the native thread has finished, sets
\* was_joined() and returns the status code of the native thread.
C3_JoinEffect ==
  [][\A t \in Threads :
       /\ join(t) =>
            IF was_joined(t) \/ was_detached(t)
              THEN /\ thLast' = [op |-> "join", t |-> t, ret |-> 0,
                                 waited |-> FALSE]
                   /\ thread' = thread
                   /\ native' = native
                   /\ thPc' = thIdle
              ELSE /\ native'[t].waitCalls = native[t].waitCalls + 1
                   /\ thPc' = [at |-> "join", t |-> t]
                   /\ thread' = thread
       /\ (thPc = [at |-> "join", t |-> t] /\ thPc' # thPc) =>
            /\ native[t].run = "finished"
            /\ was_joined(t)'
            /\ was_detached(t)' = was_detached(t)
            /\ thLast' = [op |-> "join", t |-> t, ret |-> native[t].status,
                          waited |-> TRUE]
            /\ thPc' = thIdle
  ]_vars

\* C3 witness: join() has just returned 0 without waiting on a thread whose
\* earlier join() returned a nonzero status code.
C3_Witness ==
  /\ thLast.op = "join" /\ ~thLast.waited /\ thLast.ret = 0
  /\ was_joined(thLast.t)
  /\ native[thLast.t].status # 0
  /\ native[thLast.t].waitCalls = 1

\* joinable() of an existing thread object is true exactly when no native
\* wait has completed and no native detach has been made on its thread.
JoinableIffUntouched ==
  \A t \in Threads :
    thread[t].life \in {"alive", "dying"} =>
      (joinable(t) <=> native[t].handle = "open")

\* C4: joinable() is true exactly when the thread has been neither joined
\* nor detached: it is true of a newly constructed thread, it becomes false
\* only by a join() or a detach() (or the destructor's join) taking effect,
\* and once false it never becomes true again.
C4_JoinableLifecycle ==
  /\ []JoinableIffUntouched
  /\ [][\A t \in Threads :
          /\ (thread[t].life = "unborn" /\ thread'[t].life = "alive")
               => joinable(t)'
          /\ (thread[t].life = "alive" /\ ~joinable(t)) => ~joinable(t)'
          /\ (thread[t].life = "alive" /\ joinable(t) /\ ~joinable(t)') =>
               \/ thPc = [at |-> "join", t |-> t] /\ was_joined(t)'
               \/ thPc = [at |-> "dtor", t |-> t] /\ was_joined(t)'
               \/ thPc = thIdle /\ thLast'.op = "detach" /\ was_detached(t)'
     ]_vars

\* C4 witness: one thread is still joinable while another, once joinable,
\* has been detached and a join() on it has since returned.
C4_Witness ==
  /\ \E t \in Threads : thread[t].life = "alive" /\ joinable(t)
  /\ thLast.op = "join"
  /\ thread[thLast.t].life = "alive"
  /\ ~joinable(thLast.t) /\ was_detached(thLast.t)

\* C25: in every state reached by join() and detach() calls (and by the
\* destructor's join), no thread object has both was_joined() and
\* was_detached(), and no assert(m_detached != m_joined) at the end of
\* join() or detach() has failed.
C25_NeverJoinedAndDetached ==
  /\ \A t \in Threads : ~(was_joined(t) /\ was_detached(t))
  /\ ~assertFailed

\* C25 witness: join() has just returned without waiting on a detached
\* thread, which is still not joined, while the other thread object has been
\* joined and is not detached.
C25_Witness ==
  /\ thLast.op = "join" /\ ~thLast.waited
  /\ was_detached(thLast.t) /\ ~was_joined(thLast.t)
  /\ \E u \in Threads \ {thLast.t} :
       thread[u].life = "alive" /\ was_joined(u) /\ ~was_detached(u)
  /\ ~assertFailed

\* The native wait and detach calls made so far on the thread of t.
native_calls(t) == native[t].waitCalls + native[t].detachCalls

\* C26: at no time has the native thread of a thread object been both waited
\* on and detached, or waited on twice, or detached twice; and once the
\* thread object is destroyed, its native thread has been waited on or
\* detached exactly once.
C26_WaitedOrDetachedExactlyOnce ==
  \A t \in Threads :
    /\ native_calls(t) <= 1
    /\ thread[t].life = "destroyed" => native_calls(t) = 1

\* C26 witness: a thread object that was joined has just been destroyed, its
\* destructor not waiting again, and the other thread object was destroyed
\* after a detach: one native wait for the first, one native detach for the
\* second.
C26_Witness ==
  /\ thLast.op = "dtor" /\ ~thLast.waited
  /\ thread[thLast.t].life = "destroyed"
  /\ native[thLast.t].waitCalls = 1 /\ native[thLast.t].detachCalls = 0
  /\ \E u \in Threads \ {thLast.t} :
       /\ thread[u].life = "destroyed"
       /\ native[u].waitCalls = 0 /\ native[u].detachCalls = 1

(***************************************************************************)
(*                             cen::semaphore                              *)
(*                                                                         *)
(* The class is a proxy of the native semaphore: acquire() is SDL_SemWait, *)
(* acquire(ms) is SDL_SemWaitTimeout, try_acquire() is SDL_SemTryWait,     *)
(* release() is SDL_SemPost and tokens() is SDL_SemValue.                  *)
(***************************************************************************)

\* The largest number of tokens a semaphore is created with.
MaxInitTokens == 2

\* The largest number of release() calls in a run.
MaxReleases == 3

\* The number of threads that use the semaphore.
NumCallers == 2

Callers == 1..NumCallers

SemaphoreInit ==
  /\ semaphore = [life |-> "unborn", count |-> 0]
  /\ semBlocked = {}
  /\ semHist = [n |-> 0, acquired |-> 0, released |-> 0, timedOut |-> FALSE]
  /\ semLast = [op |-> "none", by |-> NULL, ret |-> "none"]

\* semaphore::tokens
tokens == semaphore.count

\* semaphore::semaphore(tokens)
semaphore_ctor(n) ==
  /\ semaphore.life = "unborn"
  /\ semaphore' = [life |-> "alive", count |-> n]
  /\ semHist' = [semHist EXCEPT !.n = n]
  /\ semLast' = [op |-> "ctor", by |-> NULL, ret |-> "none"]
  /\ UNCHANGED semBlocked
  /\ UNCHANGED notSemaphore

\* The native wait succeeding for caller p: one token is taken.
SemTake(p, op) ==
  /\ semaphore' = [semaphore EXCEPT !.count = @ - 1]
  /\ semHist' = [semHist EXCEPT !.acquired = @ + 1]
  /\ semLast' = [op |-> op, by |-> p, ret |-> "success"]

\* The native wait giving up for caller p: nothing is taken.
SemTimeout(p, op) ==
  /\ semHist' = [semHist EXCEPT !.timedOut = TRUE]
  /\ semLast' = [op |-> op, by |-> p, ret |-> "timed_out"]
  /\ UNCHANGED semaphore

acquire_keeps_token(p) ==
  /\ semaphore.life = "alive"
  /\ p \notin semBlocked
  /\ semHist' = [semHist EXCEPT !.acquired = @ + 1]
  /\ semLast' = [op |-> "acquire", by |-> p, ret |-> "success"]
  /\ UNCHANGED <<semaphore, semBlocked>>
  /\ UNCHANGED notSemaphore

\* semaphore::acquire(), up to its return or to the point where it blocks
\* because there is no token.
acquire(p) ==
  /\ semaphore.life = "alive"
  /\ p \notin semBlocked
  /\ IF semaphore.count > 0
       THEN SemTake(p, "acquire") /\ UNCHANGED semBlocked
       ELSE /\ semBlocked' = semBlocked \cup {p}
            /\ UNCHANGED <<semaphore, semHist, semLast>>
  /\ UNCHANGED notSemaphore

\* semaphore::acquire() returning to a caller that was blocked, once a token
\* is there.
acquire_return(p) ==
  /\ p \in semBlocked
  /\ semaphore.count > 0
  /\ SemTake(p, "acquire")
  /\ semBlocked' = semBlocked \ {p}
  /\ UNCHANGED notSemaphore

\* semaphore::acquire(ms)
acquire_ms(p) ==
  /\ semaphore.life = "alive"
  /\ p \notin semBlocked
  /\ IF semaphore.count > 0
       THEN SemTake(p, "acquire_ms")
       ELSE SemTimeout(p, "acquire_ms")
  /\ UNCHANGED semBlocked
  /\ UNCHANGED notSemaphore

try_acquire_always_succeeds(p) ==
  /\ semaphore.life = "alive"
  /\ p \notin semBlocked
  /\ semaphore' = [semaphore EXCEPT !.count = IF @ > 0 THEN @ - 1 ELSE 0]
  /\ semHist' = [semHist EXCEPT !.acquired = @ + 1]
  /\ semLast' = [op |-> "try_acquire", by |-> p, ret |-> "success"]
  /\ UNCHANGED semBlocked
  /\ UNCHANGED notSemaphore

\* semaphore::try_acquire()
try_acquire(p) ==
  /\ semaphore.life = "alive"
  /\ p \notin semBlocked
  /\ IF semaphore.count > 0
       THEN SemTake(p, "try_acquire")
       ELSE SemTimeout(p, "try_acquire")
  /\ UNCHANGED semBlocked
  /\ UNCHANGED notSemaphore

\* semaphore::release()
release(p) ==
  /\ semaphore.life = "alive"
  /\ p \notin semBlocked
  /\ semHist.released < MaxReleases
  /\ semaphore' = [semaphore EXCEPT !.count = @ + 1]
  /\ semHist' = [semHist EXCEPT !.released = @ + 1]
  /\ semLast' = [op |-> "release", by |-> p, ret |-> "success"]
  /\ UNCHANGED semBlocked
  /\ UNCHANGED notSemaphore

SemaphoreNext ==
  \/ \E n \in 0..MaxInitTokens : semaphore_ctor(n)
  \/ \E p \in Callers : acquire(p)
  \/ \E p \in Callers : acquire_return(p)
  \/ \E p \in Callers : acquire_ms(p)
  \/ \E p \in Callers : try_acquire(p)
  \/ \E p \in Callers : release(p)

(***************************************************************************)
(*                    Properties of cen::semaphore                         *)
(***************************************************************************)

\* C5: a semaphore created with n tokens reports n tokens, and at every
\* moment tokens() is n plus the number of successful release() calls minus
\* the number of successful acquisitions: each one moves the count by one.
C5_TokensAreCounted ==
  /\ semLast.op = "ctor" => tokens = semHist.n
  /\ semaphore.life = "alive" =>
       tokens = semHist.n + semHist.released - semHist.acquired

\* C5 witness: a semaphore created with tokens has been both acquired and
\* released, and a release() has just brought the count from 0 to 1.
C5_Witness ==
  /\ semHist.n > 0
  /\ semHist.acquired > semHist.n
  /\ semLast.op = "release"
  /\ tokens = 1

\* C6: try_acquire() and acquire(ms) on a semaphore with no token return
\* timed_out and leave the count at zero; with a token (as after a
\* release()) they return success and take exactly that token.
C6_TimedAcquire ==
  [][\A p \in Callers :
       (try_acquire(p) \/ acquire_ms(p)) =>
         IF tokens = 0
           THEN semLast'.ret = "timed_out" /\ tokens' = 0
           ELSE semLast'.ret = "success" /\ tokens' = tokens - 1
  ]_vars

\* C6 witness: on a semaphore created empty, an acquisition timed out, one
\* release() followed, and try_acquire() has just succeeded and emptied it.
C6_Witness ==
  /\ semHist.n = 0
  /\ semHist.timedOut
  /\ semHist.released = 1
  /\ semHist.acquired = 1
  /\ semLast.op = "try_acquire" /\ semLast.ret = "success"
  /\ tokens = 0

(***************************************************************************)
(*                         centurion::font_cache                           *)
(*                                                                         *)
(* Glyphs are Unicode code points, identifiers are hash_id values and a    *)
(* texture is known by its identity: the k-th texture created is k.  The   *)
(* native rendering calls are taken to succeed.                            *)
(***************************************************************************)

\* The largest code point of the model.
MaxGlyph == 1

\* The largest string identifier of the model.
MaxId == 2

\* The largest number of textures created in a run.
MaxTextures == 3

Glyphs == 0..MaxGlyph

\* The values the end of a range takes: a code point, or one past the last.
RangeEnds == 0..(MaxGlyph + 1)

HashIds == 1..MaxId

\* The styles of a font that the model tells apart.
FontStyles == {"normal", "bold"}

\* The empty map.
EmptyMap == [x \in {} |-> 0]

FontCacheInit ==
  /\ cacheLife = "unborn"
  /\ m_font = [provided |-> {}, style |-> "normal"]
  /\ m_glyphs = EmptyMap
  /\ m_strings = EmptyMap
  /\ textures = 0
  /\ fcLast = [op |-> "none", a |-> 0, b |-> 0]

\* font::is_glyph_provided
is_glyph_provided(font, glyph) == glyph \in font.provided

\* font::get_metrics(glyph).value(): the metrics of a glyph depend on the
\* glyph and on the current style of the font.
get_metrics(font, glyph) == [glyph |-> glyph, style |-> font.style]

\* font_cache::has
has(glyph) == glyph \in DOMAIN m_glyphs

\* font_cache::at
at(glyph) == m_glyphs[glyph]

\* font_cache::has_stored
has_stored(id) == id \in DOMAIN m_strings

\* font_cache::get_stored
get_stored(id) == m_strings[id]

\* std::unordered_map::emplace: inserts unless the key is there already.
emplace(map, key, value) ==
  IF key \in DOMAIN map
    THEN map
    ELSE [k \in DOMAIN map \cup {key} |-> IF k = key THEN value ELSE map[k]]

\* font_cache::create_glyph_texture on a cache c = [glyphs, textures]: one
\* more texture exists, and it is the one returned.
create_glyph_texture(c) == c.textures + 1

add_glyph_uncached_check_missing(c, font, glyph) ==
  IF ~is_glyph_provided(font, glyph)
    THEN c
    ELSE [glyphs |-> emplace(c.glyphs, glyph,
                             [cached |-> create_glyph_texture(c),
                              metrics |-> get_metrics(font, glyph)]),
          textures |-> create_glyph_texture(c)]

add_glyph_overwriting(c, font, glyph) ==
  IF ~is_glyph_provided(font, glyph)
    THEN c
    ELSE [glyphs |-> [k \in DOMAIN c.glyphs \cup {glyph} |->
                        IF k = glyph
                          THEN [cached |-> create_glyph_texture(c),
                                metrics |-> get_metrics(font, glyph)]
                          ELSE c.glyphs[k]],
          textures |-> create_glyph_texture(c)]

\* The body of font_cache::add_glyph on a cache c = [glyphs, textures].
add_glyph_to(c, font, glyph) ==
  IF glyph \in DOMAIN c.glyphs \/ ~is_glyph_provided(font, glyph)
    THEN c
    ELSE [glyphs |-> emplace(c.glyphs, glyph,
                             [cached |-> create_glyph_texture(c),
                              metrics |-> get_metrics(font, glyph)]),
          textures |-> create_glyph_texture(c)]

RECURSIVE add_range_inclusive(_, _, _, _)
add_range_inclusive(c, font, ch, end) ==
  IF ch <= end
    THEN add_range_inclusive(add_glyph_to(c, font, ch), font, ch + 1, end)
    ELSE c

\* The loop of font_cache::add_range: for (auto ch = begin; ch < end; ++ch).
RECURSIVE add_range_from(_, _, _, _)
add_range_from(c, font, ch, end) ==
  IF ch < end
    THEN add_range_from(add_glyph_to(c, font, ch), font, ch + 1, end)
    ELSE c

\* The glyph side of the cache, as the loop above works on it.
glyph_cache == [glyphs |-> m_glyphs, textures |-> textures]

\* font_cache::font_cache: an empty cache around a font, which is the set of
\* the glyphs it provides and has the normal style.
font_cache_ctor(provided) ==
  /\ cacheLife = "unborn"
  /\ cacheLife' = "alive"
  /\ m_font' = [provided |-> provided, style |-> "normal"]
  /\ fcLast' = [op |-> "ctor", a |-> 0, b |-> 0]
  /\ UNCHANGED <<m_glyphs, m_strings, textures>>
  /\ UNCHANGED notFontCache

\* font_cache::get_font, used to change the style of the font.
get_font_set_style(style) ==
  /\ cacheLife = "alive"
  /\ style # m_font.style
  /\ m_font' = [m_font EXCEPT !.style = style]
  /\ fcLast' = [op |-> "get_font", a |-> 0, b |-> 0]
  /\ UNCHANGED <<cacheLife, m_glyphs, m_strings, textures>>
  /\ UNCHANGED notFontCache

\* font_cache::add_glyph
add_glyph(glyph) ==
  /\ cacheLife = "alive"
  /\ LET c == add_glyph_to(glyph_cache, m_font, glyph) IN
       /\ c.textures <= MaxTextures
       /\ m_glyphs' = c.glyphs
       /\ textures' = c.textures
  /\ fcLast' = [op |-> "add_glyph", a |-> glyph, b |-> 0]
  /\ UNCHANGED <<cacheLife, m_font, m_strings>>
  /\ UNCHANGED notFontCache

\* font_cache::add_range
add_range(begin, end) ==
  /\ cacheLife = "alive"
  /\ LET c == add_range_from(glyph_cache, m_font, begin, end) IN
       /\ c.textures <= MaxTextures
       /\ m_glyphs' = c.glyphs
       /\ textures' = c.textures
  /\ fcLast' = [op |-> "add_range", a |-> begin, b |-> end]
  /\ UNCHANGED <<cacheLife, m_font, m_strings>>
  /\ UNCHANGED notFontCache

\* font_cache::store: any texture stored under id is erased, then the new
\* one is put in its place.
store(strings, id, texture) ==
  [k \in DOMAIN strings \cup {id} |->
     IF k = id THEN texture ELSE strings[k]]

store_rendered_unless_stored(op, id) ==
  /\ cacheLife = "alive"
  /\ textures < MaxTextures
  /\ textures' = textures + 1
  /\ m_strings' = emplace(m_strings, id, textures + 1)
  /\ fcLast' = [op |-> op, a |-> id, b |-> 0]
  /\ UNCHANGED <<cacheLife, m_font, m_glyphs>>
  /\ UNCHANGED notFontCache

\* The body the store_* functions share: store(id, renderer.render_*(...)).
\* The renderer creates a texture of the string and store() keeps it.
store_rendered(op, id) ==
  /\ cacheLife = "alive"
  /\ textures < MaxTextures
  /\ textures' = textures + 1
  /\ m_strings' = store(m_strings, id, textures + 1)
  /\ fcLast' = [op |-> op, a |-> id, b |-> 0]
  /\ UNCHANGED <<cacheLife, m_font, m_glyphs>>
  /\ UNCHANGED notFontCache

store_blended_utf8(id) == store_rendered("store_blended_utf8", id)

store_blended_wrapped_utf8(id) == store_rendered("store_blended_wrapped_utf8", id)

store_shaded_utf8(id) == store_rendered("store_shaded_utf8", id)

store_solid_utf8(id) == store_rendered("store_solid_utf8", id)

store_blended_latin1(id) == store_rendered("store_blended_latin1", id)

store_blended_wrapped_latin1(id) == store_rendered("store_blended_wrapped_latin1", id)

store_shaded_latin1(id) == store_rendered("store_shaded_latin1", id)

store_solid_latin1(id) == store_rendered("store_solid_latin1", id)

store_blended_unicode(id) == store_rendered("store_blended_unicode", id)

store_blended_wrapped_unicode(id) == store_rendered("store_blended_wrapped_unicode", id)

store_shaded_unicode(id) == store_rendered("store_shaded_unicode", id)

store_solid_unicode(id) == store_rendered("store_solid_unicode", id)

\* Any of the store_* functions, called with identifier id.
store_any(id) ==
  \/ store_blended_utf8(id)
  \/ store_blended_wrapped_utf8(id)
  \/ store_shaded_utf8(id)
  \/ store_solid_utf8(id)
  \/ store_blended_latin1(id)
  \/ store_blended_wrapped_latin1(id)
  \/ store_shaded_latin1(id)
  \/ store_solid_latin1(id)
  \/ store_blended_unicode(id)
  \/ store_blended_wrapped_unicode(id)
  \/ store_shaded_unicode(id)
  \/ store_solid_unicode(id)

FontCacheNext ==
  \/ \E provided \in SUBSET Glyphs : font_cache_ctor(provided)
  \/ \E style \in FontStyles : get_font_set_style(style)
  \/ \E glyph \in Glyphs : add_glyph(glyph)
  \/ \E begin \in Glyphs, end \in RangeEnds : add_range(begin, end)
  \/ \E id \in HashIds : store_blended_utf8(id)
  \/ \E id \in HashIds : store_blended_wrapped_utf8(id)
  \/ \E id \in HashIds : store_shaded_utf8(id)
  \/ \E id \in HashIds : store_solid_utf8(id)
  \/ \E id \in HashIds : store_blended_latin1(id)
  \/ \E id \in HashIds : store_blended_wrapped_latin1(id)
  \/ \E id \in HashIds : store_shaded_latin1(id)
  \/ \E id \in HashIds : store_solid_latin1(id)
  \/ \E id \in HashIds : store_blended_unicode(id)
  \/ \E id \in HashIds : store_blended_wrapped_unicode(id)
  \/ \E id \in HashIds : store_shaded_unicode(id)
  \/ \E id \in HashIds : store_solid_unicode(id)

(***************************************************************************)
(*                 Properties of centurion::font_cache                     *)
(***************************************************************************)

C9_StoreOverwrites ==
  [][\A id \in HashIds :
       (fcLast'.a = id /\ store_any(id)) =>
         /\ has_stored(id)'
         /\ textures' = textures + 1
         /\ get_stored(id)' = textures'
         /\ has_stored(id) => get_stored(id)' # get_stored(id)
         /\ \A other \in HashIds \ {id} :
              /\ has_stored(other)' = has_stored(other)
              /\ has_stored(other) => get_stored(other)' = get_stored(other)
         /\ m_glyphs' = m_glyphs
  ]_vars

\* C9 witness: a store_* call has just replaced the texture stored under an
\* identifier (more textures were rendered than are stored), while another
\* identifier keeps an older texture.
C9_Witness ==
  /\ fcLast.op = "store_shaded_latin1"
  /\ has_stored(fcLast.a)
  /\ get_stored(fcLast.a) = textures
  /\ m_glyphs = EmptyMap
  /\ textures > Cardinality(DOMAIN m_strings)
  /\ \E other \in HashIds \ {fcLast.a} :
       has_stored(other) /\ get_stored(other) < textures

\* C10: nothing is ever evicted: a cached glyph stays cached with the same
\* texture and metrics, a stored identifier stays stored, and the texture
\* stored under an identifier changes only in a store_* call with that
\* identifier.
C10_NoEviction ==
  [][/\ \A g \in Glyphs : has(g) => has(g)' /\ at(g)' = at(g)
     /\ \A id \in HashIds :
          has_stored(id) =>
            /\ has_stored(id)'
            /\ get_stored(id)' # get_stored(id) => store_any(id)
  ]_vars

\* C10 witness: the first texture created is still the cached texture of a
\* glyph, with the metrics of the style the font had then and has no
\* longer, after as many textures were created as the run allows; a string
\* is stored too.
C10_Witness ==
  /\ textures = MaxTextures
  /\ \E g \in Glyphs : /\ has(g)
                       /\ at(g).cached = 1
                       /\ at(g).metrics # get_metrics(m_font, g)
  /\ \E id \in HashIds : has_stored(id)

(***************************************************************************)
(*           centurion::font_cache used by several callers at once         *)
(*                                                                         *)
(* font_cache holds no lock: between the check of add_glyph and its        *)
(* insertion another caller may run.  A step is one caller's check, or     *)
(* one caller's texture creation and insertion.                            *)
(***************************************************************************)

\* The number of callers that use the font cache at once.
NumRaceCallers == 2

RaceCallers == 1..NumRaceCallers

rcIdle == [at |-> "idle", glyph |-> 0]

RaceInit ==
  /\ fcCaller = [p \in RaceCallers |-> rcIdle]
  /\ fcCreated = [g \in Glyphs |-> 0]
  /\ fcOverlap = [g \in Glyphs |-> FALSE]

add_glyph_check_ignores_cache(p, glyph) ==
  /\ cacheLife = "alive"
  /\ fcCaller[p] = rcIdle
  /\ is_glyph_provided(m_font, glyph)
  /\ fcCaller' = [fcCaller EXCEPT ![p] = [at |-> "checked", glyph |-> glyph]]
  /\ fcOverlap' = [fcOverlap EXCEPT ![glyph] =
                     @ \/ \E q \in RaceCallers \ {p} :
                            fcCaller[q] = [at |-> "checked", glyph |-> glyph]]
  /\ UNCHANGED <<fcVars, fcCreated>>
  /\ UNCHANGED notRace

\* font_cache::add_glyph, its check: a caller goes on only when the glyph is
\* not cached and the font provides it (otherwise the call returns, and
\* nothing has changed).
add_glyph_check(p, glyph) ==
  /\ cacheLife = "alive"
  /\ fcCaller[p] = rcIdle
  /\ ~(has(glyph) \/ ~is_glyph_provided(m_font, glyph))
  /\ fcCaller' = [fcCaller EXCEPT ![p] = [at |-> "checked", glyph |-> glyph]]
  /\ fcOverlap' = [fcOverlap EXCEPT ![glyph] =
                     @ \/ \E q \in RaceCallers \ {p} :
                            fcCaller[q] = [at |-> "checked", glyph |-> glyph]]
  /\ UNCHANGED <<fcVars, fcCreated>>
  /\ UNCHANGED notRace

\* font_cache::add_glyph after its check: the texture is created and
\* m_glyphs.emplace keeps it unless the glyph has an entry by now.
add_glyph_emplace(p) ==
  /\ fcCaller[p].at = "checked"
  /\ textures < MaxTextures
  /\ LET glyph == fcCaller[p].glyph IN
       /\ textures' = create_glyph_texture(glyph_cache)
       /\ m_glyphs' = emplace(m_glyphs, glyph,
                              [cached |-> create_glyph_texture(glyph_cache),
                               metrics |-> get_metrics(m_font, glyph)])
       /\ fcCreated' = [fcCreated EXCEPT ![glyph] = @ + 1]
  /\ fcCaller' = [fcCaller EXCEPT ![p] = rcIdle]
  /\ UNCHANGED <<cacheLife, m_font, m_strings, fcLast, fcOverlap>>
  /\ UNCHANGED notRace

FontCacheRaceNext ==
  \/ \E provided \in SUBSET Glyphs : font_cache_ctor(provided)
  \/ \E style \in FontStyles : get_font_set_style(style)
  \/ \E p \in RaceCallers, glyph \in Glyphs : add_glyph_check(p, glyph)
  \/ \E p \in RaceCallers : add_glyph_emplace(p)

\* C11: add_glyph's check and insertion are not atomic.  A glyph gets more
\* than one texture only when two callers were past the check for it at
\* the same time (which the cache does not prevent, see the witness); with
\* calls one after the other a glyph gets at most one texture.
C11_TwiceOnlyWhenConcurrent ==
  \A g \in Glyphs :
    /\ has(g) => fcCreated[g] >= 1
    /\ fcCreated[g] > 1 => fcOverlap[g]
    /\ ~fcOverlap[g] => fcCreated[g] <= 1

\* C11 witness: two callers passed the check for the same uncached glyph,
\* both created a texture for it, and both calls are over; the entry holds
\* the texture of the first.
C11_Witness ==
  \E g \in Glyphs :
    /\ fcCreated[g] = 2
    /\ textures = 2
    /\ has(g) /\ at(g).cached = 1
    /\ \A p \in RaceCallers : fcCaller[p] = rcIdle

(***************************************************************************)
(*                           centurion::surface                            *)
(*                                                                         *)
(* A surface object owns the SDL_Surface its m_surface points to.  The     *)
(* native calls that create a surface (IMG_Load, SDL_DuplicateSurface, or  *)
(* the caller of the pointer constructor) deliver a surface that no other  *)
(* object holds, or null.  A function declared noexcept that lets an       *)
(* exception escape ends the program through std::terminate.               *)
(***************************************************************************)

\* The number of surface objects.
NumSurfaces == 2

\* The number of native surfaces that can be allocated.
MaxSurfaces == 3

Surfaces == 1..NumSurfaces

NativeSurfaces == 1..MaxSurfaces

sdl_unused == [state |-> "unused", frees |-> 0]

SurfaceInit ==
  /\ surfaces = [s \in Surfaces |-> [life |-> "unborn", m_surface |-> NULL]]
  /\ sdlSurface = [p \in NativeSurfaces |-> sdl_unused]
  /\ sfLast = [op |-> "none", s |-> NULL, other |-> NULL, native |-> NULL,
               outcome |-> "returned", exception |-> "none"]
  /\ terminated = FALSE

\* What a native call creating a surface can return now: null, or the next
\* surface that has not been allocated.
Fresh ==
  {p \in NativeSurfaces :
     /\ sdlSurface[p].state = "unused"
     /\ \A q \in NativeSurfaces : q < p => sdlSurface[q].state # "unused"}

MaybeFresh == {NULL} \cup Fresh

allocate(sdl, p) ==
  IF p = NULL THEN sdl ELSE [sdl EXCEPT ![p].state = "live"]

\* SDL_FreeSurface(p)
SDL_FreeSurface(sdl, p) ==
  [sdl EXCEPT ![p].state = "freed", ![p].frees = @ + 1]

\* surface::destroy
destroy(sdl, m) == IF m # NULL THEN SDL_FreeSurface(sdl, m) ELSE sdl

\* The outcome of a function body declared noexcept.
noexcept(outcome) == IF outcome = "thrown" THEN "terminated" ELSE outcome

\* surface::copy_surface: dup is what SDL_DuplicateSurface(m_surface)
\* returns.
copy_surface(dup) == IF dup = NULL THEN "thrown" ELSE "returned"

\* surface::copy, declared noexcept: the outcome of its body, the call of
\* copy_surface.
copy(dup) == noexcept(copy_surface(dup))

sf_call(op, s, other, ret, outcome, exception) ==
  /\ sfLast' = [op |-> op, s |-> s, other |-> other, native |-> ret,
                outcome |-> outcome, exception |-> exception]
  /\ terminated' = (outcome = "terminated")

\* surface::surface(czstring file): loaded is what IMG_Load(file) returns.
surface_ctor_file(s, file, loaded) ==
  /\ ~terminated
  /\ surfaces[s].life = "unborn"
  /\ IF file = NULL
       THEN /\ sf_call("surface(file)", s, NULL, NULL, "thrown",
                       "centurion_exception")
            /\ UNCHANGED <<surfaces, sdlSurface>>
       ELSE IF loaded = NULL
              THEN /\ sf_call("surface(file)", s, NULL, loaded, "thrown",
                              "img_error")
                   /\ UNCHANGED <<surfaces, sdlSurface>>
              ELSE /\ sf_call("surface(file)", s, NULL, loaded, "returned",
                              "none")
                   /\ surfaces' = [surfaces EXCEPT
                                     ![s] = [life |-> "alive",
                                             m_surface |-> loaded]]
                   /\ sdlSurface' = allocate(sdlSurface, loaded)
  /\ UNCHANGED notSurface

\* surface::surface(owner<SDL_Surface*> surface)
surface_ctor_pointer(s, surface) ==
  /\ ~terminated
  /\ surfaces[s].life = "unborn"
  /\ IF surface = NULL
       THEN /\ sf_call("surface(pointer)", s, NULL, NULL, "thrown",
                       "centurion_exception")
            /\ UNCHANGED <<surfaces, sdlSurface>>
       ELSE /\ sf_call("surface(pointer)", s, NULL, surface, "returned",
                       "none")
            /\ surfaces' = [surfaces EXCEPT
                              ![s] = [life |-> "alive", m_surface |-> surface]]
            /\ sdlSurface' = allocate(sdlSurface, surface)
  /\ UNCHANGED notSurface

\* The body of surface::copy run on object s: destroy(), then m_surface is
\* assigned what copy_surface returns, unless it throws.
copy_body(s, other, dup, op, life) ==
  LET freed == destroy(sdlSurface, surfaces[s].m_surface) IN
    /\ sf_call(op, s, other, dup, copy(dup),
               IF dup = NULL THEN "core_error" ELSE "none")
    /\ sdlSurface' = allocate(freed, dup)
    /\ surfaces' = [surfaces EXCEPT
                      ![s] = [life |-> IF copy(dup) = "returned"
                                         THEN "alive" ELSE life,
                              m_surface |-> IF dup = NULL
                                              THEN surfaces[s].m_surface
                                              ELSE dup]]

\* surface::surface(const surface& other); other holds a surface (duplicating
\* null is undefined in SDL).
surface_copy_ctor(s, other, dup) ==
  /\ ~terminated
  /\ surfaces[s].life = "unborn"
  /\ surfaces[other].life = "alive"
  /\ surfaces[other].m_surface # NULL
  /\ copy_body(s, other, dup, "copy_ctor", "unborn")
  /\ UNCHANGED notSurface

\* surface::surface(surface&& other)
surface_move_ctor(s, other) ==
  /\ ~terminated
  /\ surfaces[s].life = "unborn"
  /\ surfaces[other].life = "alive"
  /\ sf_call("move_ctor", s, other, NULL, "returned", "none")
  /\ sdlSurface' = destroy(sdlSurface, surfaces[s].m_surface)
  /\ surfaces' = [surfaces EXCEPT
                    ![s] = [life |-> "alive",
                            m_surface |-> surfaces[other].m_surface],
                    ![other].m_surface = NULL]
  /\ UNCHANGED notSurface

\* surface::~surface
surface_dtor(s) ==
  /\ ~terminated
  /\ surfaces[s].life = "alive"
  /\ sf_call("dtor", s, NULL, NULL, "returned", "none")
  /\ sdlSurface' = destroy(sdlSurface, surfaces[s].m_surface)
  /\ surfaces' = [surfaces EXCEPT ![s].life = "dead"]
  /\ UNCHANGED notSurface

surface_move_assign_keeping_source(s, other) ==
  /\ ~terminated
  /\ surfaces[s].life = "alive"
  /\ surfaces[other].life = "alive"
  /\ sf_call("move_assign", s, other, NULL, "returned", "none")
  /\ IF s # other
       THEN /\ sdlSurface' = destroy(sdlSurface, surfaces[s].m_surface)
            /\ surfaces' = [surfaces EXCEPT
                              ![s].m_surface = surfaces[other].m_surface]
       ELSE UNCHANGED <<surfaces, sdlSurface>>
  /\ UNCHANGED notSurface

\* surface::operator=(surface&& other)
surface_move_assign(s, other) ==
  /\ ~terminated
  /\ surfaces[s].life = "alive"
  /\ surfaces[other].life = "alive"
  /\ sf_call("move_assign", s, other, NULL, "returned", "none")
  /\ IF s # other
       THEN /\ sdlSurface' = destroy(sdlSurface, surfaces[s].m_surface)
            /\ surfaces' = [surfaces EXCEPT
                              ![s].m_surface = surfaces[other].m_surface,
                              ![other].m_surface = NULL]
       ELSE UNCHANGED <<surfaces, sdlSurface>>
  /\ UNCHANGED notSurface

\* surface::operator=(const surface& other); other holds a surface when it
\* is another object (nothing is duplicated in a self assignment).
surface_copy_assign(s, other, dup) ==
  /\ ~terminated
  /\ surfaces[s].life = "alive"
  /\ surfaces[other].life = "alive"
  /\ (s # other) => (surfaces[other].m_surface # NULL)
  /\ IF s # other
       THEN copy_body(s, other, dup, "copy_assign", "alive")
       ELSE /\ sf_call("copy_assign", s, other, NULL, "returned", "none")
            /\ UNCHANGED <<surfaces, sdlSurface>>
  /\ UNCHANGED notSurface

SurfaceNext ==
  \/ \E s \in Surfaces, file \in {NULL, 1}, loaded \in MaybeFresh :
       surface_ctor_file(s, file, loaded)
  \/ \E s \in Surfaces, surface \in MaybeFresh : surface_ctor_pointer(s, surface)
  \/ \E s \in Surfaces, other \in Surfaces, dup \in MaybeFresh :
       surface_copy_ctor(s, other, dup)
  \/ \E s \in Surfaces, other \in Surfaces : surface_move_ctor(s, other)
  \/ \E s \in Surfaces : surface_dtor(s)
  \/ \E s \in Surfaces, other \in Surfaces : surface_move_assign(s, other)
  \/ \E s \in Surfaces, other \in Surfaces, dup \in MaybeFresh :
       surface_copy_assign(s, other, dup)

\* C15: when SDL_DuplicateSurface fails during the copy construction or the
\* copy assignment of a surface, the failure reaches the caller as a thrown
\* exception, which the caller can catch (the program goes on).
C15_DuplicateFailureIsThrown ==
  sfLast.exception = "core_error"
    => /\ sfLast.op \in {"copy_ctor", "copy_assign"}
       /\ sfLast.outcome = "thrown"
       /\ ~terminated

\* The live surface objects that hold native surface p.
holders(p) ==
  {s \in Surfaces : surfaces[s].life = "alive" /\ surfaces[s].m_surface = p}

\* Every native surface is either unused, or held by exactly one live
\* surface object and not freed, or freed exactly once and held by no live
\* object.
OwnedOnceFreedOnce ==
  \A p \in NativeSurfaces :
    /\ sdlSurface[p].frees <= 1
    /\ sdlSurface[p].state = "unused" => holders(p) = {}
    /\ sdlSurface[p].state = "live" =>
         Cardinality(holders(p)) = 1 /\ sdlSurface[p].frees = 0
    /\ sdlSurface[p].state = "freed" =>
         holders(p) = {} /\ sdlSurface[p].frees = 1

\* C27: while no copy has failed, every native surface that was handed to a
\* surface object is held by exactly one live object, or has been freed
\* exactly once and is held by none (so it is freed exactly once when its
\* owner is gone, and no two live objects hold the same pointer); a move
\* construction or move assignment from another object transfers the
\* pointer and leaves the source holding null; a self move-assignment or
\* self copy-assignment changes nothing; destroying a surface that holds
\* null frees nothing.
C27_OwnershipTransfer ==
  /\ [](~terminated => OwnedOnceFreedOnce)
  /\ [][\A s \in Surfaces, other \in Surfaces :
          /\ surface_move_ctor(s, other) =>
               /\ surfaces'[s].m_surface = surfaces[other].m_surface
               /\ surfaces'[other].m_surface = NULL
               /\ sdlSurface' = sdlSurface
          /\ (s # other /\ surface_move_assign(s, other)) =>
               /\ surfaces'[s].m_surface = surfaces[other].m_surface
               /\ surfaces'[other].m_surface = NULL
               /\ sdlSurface' = destroy(sdlSurface, surfaces[s].m_surface)
          /\ surface_move_assign(s, s) =>
               UNCHANGED <<surfaces, sdlSurface>>
          /\ (\E dup \in MaybeFresh : surface_copy_assign(s, s, dup)) =>
               UNCHANGED <<surfaces, sdlSurface>>
          /\ (surface_dtor(s) /\ surfaces[s].m_surface = NULL) =>
               sdlSurface' = sdlSurface
     ]_vars

\* C27 witness: a surface that was moved from has just been destroyed, the
\* last object to go; the native surface it once held was freed, exactly
\* once, by the object it was moved to.
C27_Witness ==
  /\ ~terminated
  /\ sfLast.op = "dtor"
  /\ surfaces[sfLast.s].m_surface = NULL
  /\ \A s \in Surfaces : surfaces[s].life = "dead"
  /\ \E s \in Surfaces : surfaces[s].m_surface = 1
  /\ sdlSurface[1] = [state |-> "freed", frees |-> 1]

(***************************************************************************)
(*          Wrappers of native resources: construction and queries         *)
(*                                                                         *)
(* What a native (SDL) call returns is an input of the step that makes     *)
(* the call.  A constructor that throws leaves no object behind.           *)
(***************************************************************************)

\* The number of places where a wrapper object can live.
NumObjects == 1

\* Native pointers are 1..MaxPtr; NULL is the null pointer.
MaxPtr == 1

\* Device and driver indices are 0..MaxIndex.
MaxIndex == 1

Objects == 1..NumObjects

Pointers == 1..MaxPtr

MaybeNull == {NULL} \cup Pointers

Indices == 0..MaxIndex

\* std::nullopt and an engaged std::optional
nullopt == [has |-> FALSE, value |-> 0]

optional(v) == [has |-> TRUE, value |-> v]

no_object == [class |-> "none", m_ptr |-> NULL]

WrapperInit ==
  /\ wrapped = [o \in Objects |-> no_object]
  /\ wrLast = [op |-> "none", arg |-> 0, native |-> 0, out |-> 0,
               thrown |-> "none", result |-> nullopt]

\* detail::is_owning<T>()
is_owning(T) == T = "sensor"

\* The constructor returns: the object exists and holds ptr.
constructed(o, class, ptr, op, arg, ret) ==
  /\ wrapped' = [wrapped EXCEPT ![o] = [class |-> class, m_ptr |-> ptr]]
  /\ wrLast' = [op |-> op, arg |-> arg, native |-> ret, out |-> 0,
                thrown |-> "none", result |-> nullopt]

\* The constructor throws: no object comes into existence.
throws(exception, op, arg, ret) ==
  /\ wrLast' = [op |-> op, arg |-> arg, native |-> ret, out |-> 0,
                thrown |-> exception, result |-> nullopt]
  /\ UNCHANGED wrapped

sensor_ctor_index_unchecked(o, index, opened) ==
  /\ wrapped[o] = no_object
  /\ constructed(o, "sensor", opened, "sensor(index)", index, opened)
  /\ UNCHANGED notWrapper

\* basic_sensor(const int index): opened is what SDL_SensorOpen(index) returns.
sensor_ctor_index(o, index, opened) ==
  /\ wrapped[o] = no_object
  /\ IF opened = NULL
       THEN throws("sdl_error", "sensor(index)", index, opened)
       ELSE constructed(o, "sensor", opened, "sensor(index)", index, opened)
  /\ UNCHANGED notWrapper

basic_sensor_ctor_unchecked(o, T, sensor) ==
  /\ wrapped[o] = no_object
  /\ constructed(o, T, sensor, "basic_sensor(pointer)", sensor, 0)
  /\ UNCHANGED notWrapper

\* basic_sensor(maybe_owner<SDL_Sensor*> sensor), for T one of sensor (owning)
\* and sensor_handle (not owning).
basic_sensor_ctor(o, T, sensor) ==
  /\ wrapped[o] = no_object
  /\ IF is_owning(T) /\ sensor = NULL
       THEN throws("cen_error", "basic_sensor(pointer)", sensor, 0)
       ELSE constructed(o, T, sensor, "basic_sensor(pointer)", sensor, 0)
  /\ UNCHANGED notWrapper

\* cen::condition{}: created is what the native SDL_CreateCond returns.
condition_ctor(o, created) ==
  /\ wrapped[o] = no_object
  /\ IF created = NULL
       THEN throws("sdl_error", "condition()", 0, created)
       ELSE constructed(o, "condition", created, "condition()", 0, created)
  /\ UNCHANGED notWrapper

\* cen::controller{pointer}
controller_ctor(o, pointer) ==
  /\ wrapped[o] = no_object
  /\ IF pointer = NULL
       THEN throws("exception", "controller(pointer)", pointer, 0)
       ELSE constructed(o, "controller", pointer, "controller(pointer)",
                        pointer, 0)
  /\ UNCHANGED notWrapper

\* Image::Image(gsl::owner<SDL_Texture*> texture)
Image_ctor(o, texture) ==
  /\ wrapped[o] = no_object
  /\ IF texture = NULL
       THEN throws("NullPointerException", "Image(texture)", texture, 0)
       ELSE constructed(o, "Image", texture, "Image(texture)", texture, 0)
  /\ UNCHANGED notWrapper

\* The wrapper goes out of scope (an owner releases its native resource).
wrapper_dtor(o) ==
  /\ wrapped[o] # no_object
  /\ wrapped' = [wrapped EXCEPT ![o] = no_object]
  /\ wrLast' = [op |-> "dtor", arg |-> 0, native |-> 0, out |-> 0,
                thrown |-> "none", result |-> nullopt]
  /\ UNCHANGED notWrapper

\* The classes that own their native resource, and the exceptions of the
\* library.
OwningClasses == {"sensor", "condition", "controller", "Image"}

LibraryExceptions ==
  {"sdl_error", "cen_error", "centurion_exception", "img_error", "exception",
   "NullPointerException"}

\* No owning wrapper holds a null pointer.
OwnersHoldResource ==
  \A o \in Objects :
    wrapped[o].class \in OwningClasses => wrapped[o].m_ptr # NULL

\* Native calls return integers in -MaxNative..MaxNative.
MaxNative == 1

NativeInts == (0 - MaxNative)..MaxNative

\* A noexcept query returns: nothing is thrown, no object changes.
returned(op, arg, ret, out, result) ==
  /\ wrLast' = [op |-> op, arg |-> arg, native |-> ret, out |-> out,
                thrown |-> "none", result |-> result]
  /\ UNCHANGED wrapped

get_render_driver_info_nonnegative(index, result, info) ==
  /\ returned("get_render_driver_info", index, result, info,
              IF result >= 0 THEN optional(info) ELSE nullopt)
  /\ UNCHANGED notWrapper

\* cen::get_render_driver_info(index): SDL_GetRenderDriverInfo(index, &info)
\* returns result and fills info.
get_render_driver_info(index, result, info) ==
  /\ returned("get_render_driver_info", index, result, info,
              IF result = 0 THEN optional(info) ELSE nullopt)
  /\ UNCHANGED notWrapper

\* basic_sensor::id(index): id is what SDL_SensorGetDeviceInstanceID(index)
\* returns.
sensor_id(index, id) ==
  /\ returned("id", index, id, id, IF id # -1 THEN optional(id) ELSE nullopt)
  /\ UNCHANGED notWrapper

\* basic_sensor::non_portable_type(index): type is what
\* SDL_SensorGetDeviceNonPortableType(index) returns.
non_portable_type(index, type) ==
  /\ returned("non_portable_type", index, type, type,
              IF type # -1 THEN optional(type) ELSE nullopt)
  /\ UNCHANGED notWrapper

\* basic_sensor::data<Size>(): SDL_SensorGetData(m_sensor, ...) returns ret
\* and fills array.
sensor_data(o, ret, array) ==
  /\ wrapped[o].class \in {"sensor", "sensor_handle"}
  /\ returned("data", wrapped[o].m_ptr, ret, array,
              IF ret # -1 THEN optional(array) ELSE nullopt)
  /\ UNCHANGED notWrapper

\* The constructors that create their native resource.
NativeCreateNext ==
  \/ \E t \in Threads, ok \in BOOLEAN : thread_ctor(t, ok)
  \/ \E o \in Objects, index \in Indices, opened \in MaybeNull :
       sensor_ctor_index(o, index, opened)
  \/ \E o \in Objects, created \in MaybeNull : condition_ctor(o, created)
  \/ \E o \in Objects : wrapper_dtor(o)

\* The constructors of the wrappers.
WrapperNext ==
  \/ \E o \in Objects, index \in Indices, opened \in MaybeNull :
       sensor_ctor_index(o, index, opened)
  \/ \E o \in Objects, T \in {"sensor", "sensor_handle"},
        sensor \in MaybeNull :
       basic_sensor_ctor(o, T, sensor)
  \/ \E o \in Objects, created \in MaybeNull : condition_ctor(o, created)
  \/ \E s \in Surfaces, file \in {NULL, 1}, loaded \in MaybeFresh :
       surface_ctor_file(s, file, loaded)
  \/ \E s \in Surfaces, surface \in MaybeFresh : surface_ctor_pointer(s, surface)
  \/ \E o \in Objects, pointer \in MaybeNull : controller_ctor(o, pointer)
  \/ \E o \in Objects, texture \in MaybeNull : Image_ctor(o, texture)
  \/ \E o \in Objects : wrapper_dtor(o)

\* The queries that return a std::optional, and the sensors they are made on.
QueryNext ==
  \/ \E o \in Objects, T \in {"sensor", "sensor_handle"},
        sensor \in MaybeNull :
       basic_sensor_ctor(o, T, sensor)
  \/ \E o \in Objects : wrapper_dtor(o)
  \/ \E index \in Indices, result \in NativeInts, info \in NativeInts :
       get_render_driver_info(index, result, info)
  \/ \E index \in Indices, id \in NativeInts : sensor_id(index, id)
  \/ \E index \in Indices, type \in NativeInts : non_portable_type(index, type)
  \/ \E o \in Objects, ret \in NativeInts, array \in NativeInts :
       sensor_data(o, ret, array)

\* C12: a constructor that creates its native resource (thread, sensor by
\* device index, condition) throws sdl_error when the native create or open
\* call returns null, and no object comes of the call; so no such wrapper
\* ever holds a null pointer.
C12_NativeNullThrows ==
  /\ [](/\ \A o \in Objects :
             wrapped[o].class \in {"sensor", "condition"}
               => wrapped[o].m_ptr # NULL
        /\ \A t \in Threads :
             thread[t].life = "alive" => thread[t].m_thread # NULL)
  /\ [][/\ \A o \in Objects, index \in Indices :
             sensor_ctor_index(o, index, NULL)
               => wrLast'.thrown = "sdl_error" /\ wrapped' = wrapped
        /\ \A o \in Objects :
             condition_ctor(o, NULL)
               => wrLast'.thrown = "sdl_error" /\ wrapped' = wrapped
        /\ \A t \in Threads :
             thread_ctor(t, FALSE)
               => /\ thLast'.op = "ctor_throw"
                  /\ thread'[t].life = "failed"
                  /\ native' = native]_vars

\* C12 witness: SDL_CreateThread returned null and the thread constructor
\* threw, then SDL_SensorOpen returned null and the sensor constructor threw
\* sdl_error; no object exists.
C12_Witness ==
  /\ wrLast.op = "sensor(index)"
  /\ wrLast.native = NULL
  /\ wrLast.thrown = "sdl_error"
  /\ thLast.op = "ctor_throw"
  /\ \A o \in Objects : wrapped[o] = no_object
  /\ \A t \in Threads : thread[t].life # "alive"

\* C13: constructing an owning wrapper (surface from a file path or from a
\* pointer, owning sensor, controller, Image) from null throws an exception
\* of the library and no object comes of the call, so no owning wrapper
\* holds null; the non-owning sensor handle is constructed from null without
\* throwing and then holds null.
C13_NullArgumentThrows ==
  /\ []OwnersHoldResource
  /\ [][/\ \A s \in Surfaces :
             (\/ \E loaded \in MaybeFresh : surface_ctor_file(s, NULL, loaded)
              \/ surface_ctor_pointer(s, NULL))
               => /\ sfLast'.outcome = "thrown"
                  /\ sfLast'.exception \in LibraryExceptions
                  /\ surfaces' = surfaces
        /\ \A o \in Objects :
             /\ (\/ basic_sensor_ctor(o, "sensor", NULL)
                 \/ controller_ctor(o, NULL)
                 \/ Image_ctor(o, NULL))
                  => /\ wrLast'.thrown \in LibraryExceptions
                     /\ wrapped' = wrapped
             /\ basic_sensor_ctor(o, "sensor_handle", NULL)
                  => /\ wrLast'.thrown = "none"
                     /\ wrapped'[o] = [class |-> "sensor_handle",
                                       m_ptr |-> NULL]]_vars

\* C13 witness: a sensor handle was constructed from null and holds null,
\* the owning sensor constructor was given null and threw cen_error, and
\* the surface constructor was given a null pointer and threw, leaving no
\* surface object.
C13_Witness ==
  /\ wrLast.op = "basic_sensor(pointer)"
  /\ wrLast.arg = NULL
  /\ wrLast.thrown = "none"
  /\ \E o \in Objects :
       wrapped[o] = [class |-> "sensor_handle", m_ptr |-> NULL]
  /\ sfLast.op = "surface(pointer)"
  /\ sfLast.outcome = "thrown"
  /\ sfLast.exception = "centurion_exception"
  /\ \A s \in Surfaces : surfaces[s].life = "unborn"

\* C14: get_render_driver_info, sensor id, sensor non_portable_type and
\* sensor data return std::nullopt exactly when the native call reports
\* failure (a result other than 0 for the first, -1 for the others),
\* otherwise the value the native call produced, and they never throw.
C14_NulloptIffNativeFailure ==
  /\ wrLast.op \in {"get_render_driver_info", "id", "non_portable_type",
                    "data"}
       => wrLast.thrown = "none"
  /\ wrLast.op = "get_render_driver_info"
       => /\ wrLast.result = nullopt <=> wrLast.native # 0
          /\ wrLast.native = 0 => wrLast.result = optional(wrLast.out)
  /\ wrLast.op \in {"id", "non_portable_type"}
       => /\ wrLast.result = nullopt <=> wrLast.native = -1
          /\ wrLast.native # -1 => wrLast.result = optional(wrLast.native)
  /\ wrLast.op = "data"
       => /\ wrLast.result = nullopt <=> wrLast.native = -1
          /\ wrLast.native # -1 => wrLast.result = optional(wrLast.out)

\* C14 witness: SDL_GetRenderDriverInfo returned a positive result and the
\* query returned std::nullopt.
C14_Witness ==
  /\ wrLast.op = "get_render_driver_info"
  /\ wrLast.native > 0
  /\ wrLast.result = nullopt

(***************************************************************************)
(*                            centurion::color                             *)
(*                                                                         *)
(* The functions on colors are pure.  A behaviour applies one of them to   *)
(* one choice of arguments and keeps the arguments and the result.  The    *)
(* double arithmetic of from_hsv, from_hsl and blend is computed exactly,  *)
(* as fractions over a common denominator; the arguments are drawn from    *)
(* values for which the doubles of the code are exact too (binary          *)
(* fractions) or are never close to a rounding tie.                        *)
(***************************************************************************)

\* assert(hue <= 360), assert(saturation <= 100)
MaxHue == 360

MaxPercent == 100

\* The bias of a blend is one of 0/BiasSteps .. BiasSteps/BiasSteps.
BiasSteps == 4

\* color::max()
max == 255

Hues == {h \in 0..MaxHue : h % 30 = 0}

Percents == {0, MaxPercent \div 2, MaxPercent}

BiasNumerators == 0..BiasSteps

\* The values of a u8 component that are used as arguments.
Channels == {0, 85, max}

Colors == [red : Channels, green : Channels, blue : Channels,
           alpha : Channels]

SDL_Colors == [r : Channels, g : Channels, b : Channels, a : Channels]

SDL_MessageBoxColors == [r : Channels, g : Channels, b : Channels]

\* static_cast<u8>
u8(n) == n % 256

Abs(n) == IF n < 0 THEN 0 - n ELSE n

\* std::round(num / den) for num >= 0 and den > 0: halves round away from
\* zero.
round(num, den) == (2 * num + den) \div (2 * den)

\* color{red, green, blue, alpha = max()}
color(red, green, blue, alpha) ==
  [red |-> red, green |-> green, blue |-> blue, alpha |-> alpha]

\* The denominator of the fractions in from_hsv and from_hsl:
\* percent * percent * 60.
HsDen == MaxPercent * MaxPercent * 60

\* chroma * (1 - fabs(fmod(hp, 2) - 1)), for chroma = chromaN / HsDen and
\* hp = hue / 60; chromaN is a multiple of 60.
hs_x(chromaN, hue) == (chromaN \div 60) * (60 - Abs((hue % 120) - 60))

\* The last step of from_hsv and from_hsl: the components
\* static_cast<u8>(std::round((c + m) * 255.0)) and alpha max().
hs_color(rgb, mN) ==
  color(u8(round((rgb[1] + mN) * 255, HsDen)),
        u8(round((rgb[2] + mN) * 255, HsDen)),
        u8(round((rgb[3] + mN) * 255, HsDen)),
        max)

\* color::from_hsv
from_hsv(hue, saturation, value) ==
  LET vN == value * MaxPercent * 60
      chroma == value * saturation * 60
      x == hs_x(chroma, hue)
      rgb == IF 0 <= hue /\ hue <= 60 THEN <<chroma, x, 0>>
             ELSE IF 60 < hue /\ hue <= 120 THEN <<x, chroma, 0>>
             ELSE IF 120 < hue /\ hue <= 180 THEN <<0, chroma, x>>
             ELSE IF 180 < hue /\ hue <= 240 THEN <<0, x, chroma>>
             ELSE IF 240 < hue /\ hue <= 300 THEN <<x, 0, chroma>>
             ELSE IF 300 < hue /\ hue <= 360 THEN <<chroma, 0, x>>
             ELSE <<0, 0, 0>>
  IN hs_color(rgb, vN - chroma)

\* color::from_hsl
from_hsl(hue, saturation, lightness) ==
  LET lN == lightness * MaxPercent * 60
      chroma == (MaxPercent - Abs(2 * lightness - MaxPercent))
                  * saturation * 60
      x == hs_x(chroma, hue)
      rgb == IF 0 <= hue /\ hue < 60 THEN <<chroma, x, 0>>
             ELSE IF 60 <= hue /\ hue < 120 THEN <<x, chroma, 0>>
             ELSE IF 120 <= hue /\ hue < 180 THEN <<0, chroma, x>>
             ELSE IF 180 <= hue /\ hue < 240 THEN <<0, x, chroma>>
             ELSE IF 240 <= hue /\ hue < 300 THEN <<x, 0, chroma>>
             ELSE IF 300 <= hue /\ hue < 360 THEN <<chroma, 0, x>>
             ELSE <<0, 0, 0>>
  IN hs_color(rgb, lN - (chroma \div 2))

ColorInit ==
  colLast = [op |-> "none", a |-> 0, b |-> 0, n |-> <<>>, result |-> 0]

\* No function has been applied yet.
unapplied == colLast.op = "none"

\* One function is applied: colLast keeps the arguments and the result.
applied(op, a, b, n, result) ==
  /\ unapplied
  /\ colLast' = [op |-> op, a |-> a, b |-> b, n |-> n, result |-> result]
  /\ UNCHANGED notColor

apply_from_hsv(hue, saturation, value) ==
  applied("from_hsv", 0, 0, <<hue, saturation, value>>,
          from_hsv(hue, saturation, value))

apply_from_hsl(hue, saturation, lightness) ==
  applied("from_hsl", 0, 0, <<hue, saturation, lightness>>,
          from_hsl(hue, saturation, lightness))

HsNext ==
  \/ /\ unapplied
     /\ \E hue \in Hues, saturation \in Percents, value \in Percents :
          apply_from_hsv(hue, saturation, value)
  \/ /\ unapplied
     /\ \E hue \in Hues, saturation \in Percents, lightness \in Percents :
          apply_from_hsl(hue, saturation, lightness)

red == color(max, 0, 0, max)

lime == color(0, max, 0, max)

blue == color(0, 0, max, max)

\* C16: for every hue that is a multiple of 60 in [0, 360],
\* from_hsv(hue, 100, 100) and from_hsl(hue, 100, 50) return the same color,
\* with alpha 255: red for hue 0, lime for 120, blue for 240, and for 360
\* the color of hue 0.
C16_HsvHslAgreeOnFullHues ==
  LET hue == colLast.n[1]
      other == IF colLast.op = "from_hsv"
                 THEN from_hsl(hue, MaxPercent, MaxPercent \div 2)
                 ELSE from_hsv(hue, MaxPercent, MaxPercent)
  IN (/\ \/ colLast.op = "from_hsv"
            /\ colLast.n = <<hue, MaxPercent, MaxPercent>>
         \/ colLast.op = "from_hsl"
            /\ colLast.n = <<hue, MaxPercent, MaxPercent \div 2>>
      /\ hue % 60 = 0)
       => /\ colLast.result = other
          /\ colLast.result.alpha = max
          /\ hue = 0 => colLast.result = red
          /\ hue = 120 => colLast.result = lime
          /\ hue = 240 => colLast.result = blue
          /\ hue = MaxHue => colLast.result = red

white == color(max, max, max, max)

black == color(0, 0, 0, max)

\* The numerator over BiasSteps of (a * invBias) + (b * bias), for
\* bias = k / BiasSteps.
lerp(a, b, k) == a * (BiasSteps - k) + b * k

blend_truncating(a, b, k) ==
  color(u8(lerp(a.red, b.red, k) \div BiasSteps),
        u8(lerp(a.green, b.green, k) \div BiasSteps),
        u8(lerp(a.blue, b.blue, k) \div BiasSteps),
        u8(lerp(a.alpha, b.alpha, k) \div BiasSteps))

\* cen::blend(a, b, bias), for bias = k / BiasSteps
blend(a, b, k) ==
  color(u8(round(lerp(a.red, b.red, k), BiasSteps)),
        u8(round(lerp(a.green, b.green, k), BiasSteps)),
        u8(round(lerp(a.blue, b.blue, k), BiasSteps)),
        u8(round(lerp(a.alpha, b.alpha, k), BiasSteps)))

apply_blend(a, b, k) == applied("blend", a, b, <<k>>, blend(a, b, k))

BlendNext ==
  \/ /\ unapplied
     /\ \E a \in Colors, b \in Colors, k \in BiasNumerators :
          apply_blend(a, b, k)

Components == {"red", "green", "blue", "alpha"}

\* C17: blend(a, b, bias) is, in each of the four components, the integer
\* nearest to the linear interpolation a * (1 - bias) + b * bias; bias 0
\* gives a, bias 1 gives b, bias 0.5 the mean rounded (half up), and white
\* and black blend to gray, 0x80 in each channel with alpha 0xFF.
C17_BlendIsRoundedInterpolation ==
  colLast.op = "blend" =>
    LET a == colLast.a
        b == colLast.b
        k == colLast.n[1]
        c == colLast.result
    IN /\ \A f \in Components :
            /\ c[f] \in 0..max
            /\ 2 * Abs(BiasSteps * c[f] - (a[f] * (BiasSteps - k) + b[f] * k))
                 <= BiasSteps
            /\ 2 * k = BiasSteps
                 => 2 * c[f] \in {a[f] + b[f], a[f] + b[f] + 1}
       /\ k = 0 => c = a
       /\ k = BiasSteps => c = b
       /\ (2 * k = BiasSteps /\ a = white /\ b = black)
            => c = color(128, 128, 128, max)

\* C17 witness: white and black were blended with bias 0.5, to gray.
C17_Witness ==
  /\ colLast.op = "blend"
  /\ colLast.a = white
  /\ colLast.b = black
  /\ 2 * colLast.n[1] = BiasSteps
  /\ colLast.result = color(128, 128, 128, max)

to_SDL_Color_without_alpha(c) ==
  [r |-> c.red, g |-> c.green, b |-> c.blue, a |-> max]

\* color::operator SDL_Color
to_SDL_Color(c) == [r |-> c.red, g |-> c.green, b |-> c.blue, a |-> c.alpha]

\* color::operator SDL_MessageBoxColor
to_SDL_MessageBoxColor(c) == [r |-> c.red, g |-> c.green, b |-> c.blue]

\* color::color(const SDL_Color&)
color_from_SDL_Color(c) == color(c.r, c.g, c.b, c.a)

\* color::color(const SDL_MessageBoxColor&)
color_from_SDL_MessageBoxColor(c) == color(c.r, c.g, c.b, max)

apply_to_SDL_Color(c) ==
  applied("to_SDL_Color", c, 0, <<>>, to_SDL_Color(c))

apply_to_SDL_MessageBoxColor(c) ==
  applied("to_SDL_MessageBoxColor", c, 0, <<>>, to_SDL_MessageBoxColor(c))

apply_color_from_SDL_Color(c) ==
  applied("color(SDL_Color)", c, 0, <<>>, color_from_SDL_Color(c))

apply_color_from_SDL_MessageBoxColor(c) ==
  applied("color(SDL_MessageBoxColor)", c, 0, <<>>,
          color_from_SDL_MessageBoxColor(c))

ConvertNext ==
  \/ /\ unapplied
     /\ \E c \in Colors : apply_to_SDL_Color(c)
  \/ /\ unapplied
     /\ \E c \in Colors : apply_to_SDL_MessageBoxColor(c)
  \/ /\ unapplied
     /\ \E c \in SDL_Colors : apply_color_from_SDL_Color(c)
  \/ /\ unapplied
     /\ \E c \in SDL_MessageBoxColors : apply_color_from_SDL_MessageBoxColor(c)

\* C18: a color converted to SDL_Color and made a color again is the color
\* it was, in all four components; through SDL_MessageBoxColor red, green
\* and blue are kept and alpha becomes 255, whatever it was.
C18_ConversionRoundTrip ==
  /\ colLast.op = "to_SDL_Color"
       => /\ colLast.result = [r |-> colLast.a.red, g |-> colLast.a.green,
                               b |-> colLast.a.blue, a |-> colLast.a.alpha]
          /\ color_from_SDL_Color(colLast.result) = colLast.a
  /\ colLast.op = "to_SDL_MessageBoxColor"
       => LET back == color_from_SDL_MessageBoxColor(colLast.result) IN
            /\ back.red = colLast.a.red
            /\ back.green = colLast.a.green
            /\ back.blue = colLast.a.blue
            /\ back.alpha = max
  /\ colLast.op = "color(SDL_Color)"
       => to_SDL_Color(colLast.result) = colLast.a
  /\ colLast.op = "color(SDL_MessageBoxColor)"
       => /\ to_SDL_MessageBoxColor(colLast.result) = colLast.a
          /\ colLast.result.alpha = max

\* C18 witness: a color whose alpha is not 255 was converted to
\* SDL_MessageBoxColor; the color made from the result has alpha 255.
C18_Witness ==
  /\ colLast.op = "to_SDL_MessageBoxColor"
  /\ colLast.a.alpha = 0
  /\ colLast.a.red = 85
  /\ color_from_SDL_MessageBoxColor(colLast.result)
       = [colLast.a EXCEPT !.alpha = max]

\* operator==(const color&, const color&)
eq_color_color(lhs, rhs) ==
  (lhs.red = rhs.red) /\ (lhs.green = rhs.green) /\ (lhs.blue = rhs.blue)
    /\ (lhs.alpha = rhs.alpha)

\* operator==(const color&, const SDL_Color&)
eq_color_SDL_Color(lhs, rhs) ==
  (lhs.red = rhs.r) /\ (lhs.green = rhs.g) /\ (lhs.blue = rhs.b)
    /\ (lhs.alpha = rhs.a)

\* operator==(const SDL_Color&, const color&)
eq_SDL_Color_color(lhs, rhs) == eq_color_SDL_Color(rhs, lhs)

eq_color_MessageBoxColor_with_alpha(lhs, rhs) ==
  (lhs.red = rhs.r) /\ (lhs.green = rhs.g) /\ (lhs.blue = rhs.b)
    /\ (lhs.alpha = max)

\* operator==(const color&, const SDL_MessageBoxColor&)
eq_color_MessageBoxColor(lhs, rhs) ==
  (lhs.red = rhs.r) /\ (lhs.green = rhs.g) /\ (lhs.blue = rhs.b)

\* operator==(const SDL_MessageBoxColor&, const color&)
eq_MessageBoxColor_color(lhs, rhs) == eq_color_MessageBoxColor(rhs, lhs)

\* The five operator!=
neq_color_color(lhs, rhs) == ~eq_color_color(lhs, rhs)

neq_color_SDL_Color(lhs, rhs) == ~eq_color_SDL_Color(lhs, rhs)

neq_SDL_Color_color(lhs, rhs) == ~eq_SDL_Color_color(lhs, rhs)

neq_color_MessageBoxColor(lhs, rhs) == ~eq_color_MessageBoxColor(lhs, rhs)

neq_MessageBoxColor_color(lhs, rhs) == ~eq_MessageBoxColor_color(lhs, rhs)

\* lhs == rhs and lhs != rhs are evaluated.
compared(op, lhs, rhs, eq, neq) ==
  applied(op, lhs, rhs, <<>>, [eq |-> eq, neq |-> neq])

compare_color_color(lhs, rhs) ==
  compared("color, color", lhs, rhs, eq_color_color(lhs, rhs),
           neq_color_color(lhs, rhs))

compare_color_SDL_Color(lhs, rhs) ==
  compared("color, SDL_Color", lhs, rhs, eq_color_SDL_Color(lhs, rhs),
           neq_color_SDL_Color(lhs, rhs))

compare_SDL_Color_color(lhs, rhs) ==
  compared("SDL_Color, color", lhs, rhs, eq_SDL_Color_color(lhs, rhs),
           neq_SDL_Color_color(lhs, rhs))

compare_color_MessageBoxColor(lhs, rhs) ==
  compared("color, SDL_MessageBoxColor", lhs, rhs,
           eq_color_MessageBoxColor(lhs, rhs),
           neq_color_MessageBoxColor(lhs, rhs))

compare_MessageBoxColor_color(lhs, rhs) ==
  compared("SDL_MessageBoxColor, color", lhs, rhs,
           eq_MessageBoxColor_color(lhs, rhs),
           neq_MessageBoxColor_color(lhs, rhs))

CompareNext ==
  \/ /\ unapplied
     /\ \E lhs \in Colors, rhs \in Colors : compare_color_color(lhs, rhs)
  \/ /\ unapplied
     /\ \E lhs \in Colors, rhs \in SDL_Colors : compare_color_SDL_Color(lhs, rhs)
  \/ /\ unapplied
     /\ \E lhs \in SDL_Colors, rhs \in Colors : compare_SDL_Color_color(lhs, rhs)
  \/ /\ unapplied
     /\ \E lhs \in Colors, rhs \in SDL_MessageBoxColors :
          compare_color_MessageBoxColor(lhs, rhs)
  \/ /\ unapplied
     /\ \E lhs \in SDL_MessageBoxColors, rhs \in Colors :
          compare_MessageBoxColor_color(lhs, rhs)

\* The color of a comparison operand, whatever its type; an
\* SDL_MessageBoxColor has red, green and blue only.
rgb_of(c) ==
  IF "red" \in DOMAIN c THEN <<c.red, c.green, c.blue>>
                        ELSE <<c.r, c.g, c.b>>

alpha_of(c) == IF "red" \in DOMAIN c THEN c.alpha ELSE c.a

\* C19: a color equals an SDL_MessageBoxColor exactly when red, green and
\* blue agree, whatever the alpha of the color and in both operand orders;
\* it equals an SDL_Color or a color exactly when alpha agrees as well;
\* and != is the negation of == for every pair of operands.
C19_ComparisonSemantics ==
  LET lhs == colLast.a
      rhs == colLast.b
  IN /\ colLast.op \in {"color, SDL_MessageBoxColor",
                        "SDL_MessageBoxColor, color"}
          => /\ colLast.result.eq <=> (rgb_of(lhs) = rgb_of(rhs))
             /\ colLast.result.neq <=> ~colLast.result.eq
     /\ colLast.op \in {"color, color", "color, SDL_Color",
                        "SDL_Color, color"}
          => /\ colLast.result.eq <=> (/\ rgb_of(lhs) = rgb_of(rhs)
                                       /\ alpha_of(lhs) = alpha_of(rhs))
             /\ colLast.result.neq <=> ~colLast.result.eq

\* C19 witness: a message box color was compared with a color of the same
\* red, green and blue whose alpha is not 255, and == held.
C19_Witness ==
  /\ colLast.op = "SDL_MessageBoxColor, color"
  /\ colLast.b.alpha = 85
  /\ colLast.b.red = max
  /\ colLast.result = [eq |-> TRUE, neq |-> FALSE]

(***************************************************************************)
(*                         centurion::basic_rect                           *)
(*                                                                         *)
(* The functions on rectangles are pure.  A behaviour applies one of them  *)
(* to one choice of arguments and keeps the arguments and the result.      *)
(* Rectangles have integer coordinates (cen::irect); a size may be         *)
(* negative.                                                               *)
(***************************************************************************)

\* Positions are in 0..MaxCoord, widths and heights in -1..MaxSize.
MaxCoord == 1

MaxSize == 2

Coords == 0..MaxCoord

Sizes == (0 - 1)..MaxSize

Rects == [x : Coords, y : Coords, width : Sizes, height : Sizes]

\* basic_rect{}: the default rectangle
empty_rect == [x |-> 0, y |-> 0, width |-> 0, height |-> 0]

\* basic_rect::has_area
has_area(r) == (r.width > 0) /\ (r.height > 0)

\* basic_rect::max_x, basic_rect::max_y
max_x(r) == r.x + r.width

max_y(r) == r.y + r.height

Min(a, b) == IF a < b THEN a ELSE b

Max(a, b) == IF a > b THEN a ELSE b

get_union_second_checked_first(fst, snd) ==
  IF ~has_area(snd) THEN fst
  ELSE IF ~has_area(fst) THEN snd
  ELSE [x |-> Min(fst.x, snd.x),
        y |-> Min(fst.y, snd.y),
        width |-> Max(max_x(fst), max_x(snd)) - Min(fst.x, snd.x),
        height |-> Max(max_y(fst), max_y(snd)) - Min(fst.y, snd.y)]

\* cen::get_union(fst, snd)
get_union(fst, snd) ==
  IF ~has_area(fst) /\ ~has_area(snd) THEN empty_rect
  ELSE IF ~has_area(fst) THEN snd
  ELSE IF ~has_area(snd) THEN fst
  ELSE [x |-> Min(fst.x, snd.x),
        y |-> Min(fst.y, snd.y),
        width |-> Max(max_x(fst), max_x(snd)) - Min(fst.x, snd.x),
        height |-> Max(max_y(fst), max_y(snd)) - Min(fst.y, snd.y)]

RectInit == rectLast = [op |-> "none", a |-> 0, b |-> 0, result |-> 0]

apply_get_union(fst, snd) ==
  /\ rectLast.op = "none"
  /\ rectLast' = [op |-> "get_union", a |-> fst, b |-> snd,
                  result |-> get_union(fst, snd)]
  /\ UNCHANGED notRect

intersects_closed(fst, snd) ==
  /\ has_area(fst) /\ has_area(snd)
  /\ ~(\/ fst.x > max_x(snd)
        \/ max_x(fst) < snd.x
        \/ fst.y > max_y(snd)
        \/ max_y(fst) < snd.y)

\* cen::intersects(fst, snd): both rectangles have area and neither lies
\* wholly to one side of the other; a shared edge is not an overlap.
intersects(fst, snd) ==
  /\ has_area(fst) /\ has_area(snd)
  /\ ~(\/ fst.x >= max_x(snd)
        \/ max_x(fst) <= snd.x
        \/ fst.y >= max_y(snd)
        \/ max_y(fst) <= snd.y)

apply_intersects(fst, snd) ==
  /\ rectLast.op = "none"
  /\ rectLast' = [op |-> "intersects", a |-> fst, b |-> snd,
                  result |-> intersects(fst, snd)]
  /\ UNCHANGED notRect

RectNext ==
  \/ /\ rectLast.op = "none"
     /\ \E fst \in Rects, snd \in Rects : apply_get_union(fst, snd)
  \/ /\ rectLast.op = "none"
     /\ \E fst \in Rects, snd \in Rects : apply_intersects(fst, snd)

\* C20: get_union(a, b) is the bounding box of a and b when both have area
\* (the smallest rectangle that covers both), is the other rectangle when
\* exactly one of them has no area, is the empty rectangle when neither has
\* area, and get_union(a, b) = get_union(b, a).
C20_UnionIsBoundingBox ==
  rectLast.op = "get_union" =>
    LET a == rectLast.a
        b == rectLast.b
        u == rectLast.result
    IN /\ (has_area(a) /\ has_area(b))
            => /\ u.x <= a.x /\ u.x <= b.x /\ u.x \in {a.x, b.x}
               /\ u.y <= a.y /\ u.y <= b.y /\ u.y \in {a.y, b.y}
               /\ max_x(u) >= max_x(a) /\ max_x(u) >= max_x(b)
               /\ max_x(u) \in {max_x(a), max_x(b)}
               /\ max_y(u) >= max_y(a) /\ max_y(u) >= max_y(b)
               /\ max_y(u) \in {max_y(a), max_y(b)}
               /\ has_area(u)
       /\ (has_area(a) /\ ~has_area(b)) => u = a
       /\ (~has_area(a) /\ has_area(b)) => u = b
       /\ (~has_area(a) /\ ~has_area(b)) => u = empty_rect
       /\ u = get_union(b, a)

\* C20 witness: the union of two overlapping rectangles with area, neither
\* of which covers the other, is their bounding box.
C20_Witness ==
  /\ rectLast.op = "get_union"
  /\ rectLast.a = [x |-> 0, y |-> 0, width |-> 1, height |-> 2]
  /\ rectLast.b = [x |-> 1, y |-> 1, width |-> 1, height |-> 1]
  /\ rectLast.result = [x |-> 0, y |-> 0, width |-> 2, height |-> 2]

\* Two rectangles with area touch along an edge: one ends where the other
\* begins, horizontally or vertically.
touching(a, b) ==
  \/ max_x(a) = b.x
  \/ max_x(b) = a.x
  \/ max_y(a) = b.y
  \/ max_y(b) = a.y

ModifierKeys ==
  {"left_shift", "right_shift", "left_ctrl", "right_ctrl", "left_alt",
   "right_alt", "left_gui", "right_gui", "num", "caps", "mode"}

key_modifier == {"none"} \cup ModifierKeys

Masks == SUBSET ModifierKeys

\* The mask of an enumerator: key_modifier::none is KMOD_NONE, no bit at all.
to_underlying(modifier) == IF modifier = "none" THEN {} ELSE {modifier}

KeyboardInit ==
  /\ keyboard_event = [life |-> "unborn", mod |-> {}]
  /\ kbLast = [op |-> "none", modifier |-> "none", active |-> FALSE]

\* keyboard_event() and keyboard_event(const SDL_KeyboardEvent&): the
\* default event has no modifier; the other takes the mask of the SDL event.
keyboard_event_ctor(mask) ==
  /\ keyboard_event.life = "unborn"
  /\ keyboard_event' = [life |-> "alive", mod |-> mask]
  /\ UNCHANGED kbLast
  /\ UNCHANGED notKeyboard

modifier_active(event, modifier) ==
  (event.mod \cap to_underlying(modifier)) # {}

set_modifier_assigning(modifier, active) ==
  /\ keyboard_event.life = "alive"
  /\ keyboard_event' =
       [keyboard_event EXCEPT
          !.mod = IF active THEN to_underlying(modifier) ELSE {}]
  /\ kbLast' = [op |-> "set_modifier", modifier |-> modifier,
                active |-> active]
  /\ UNCHANGED notKeyboard

\* keyboard_event::set_modifier(modifier, active): sets or clears the bits
\* of the modifier in keysym.mod.
set_modifier(modifier, active) ==
  /\ keyboard_event.life = "alive"
  /\ keyboard_event' =
       [keyboard_event EXCEPT
          !.mod = IF active THEN @ \cup to_underlying(modifier)
                            ELSE @ \ to_underlying(modifier)]
  /\ kbLast' = [op |-> "set_modifier", modifier |-> modifier,
                active |-> active]
  /\ UNCHANGED notKeyboard

KeyboardNext ==
  \/ \E mask \in Masks : keyboard_event_ctor(mask)
  \/ \E modifier \in key_modifier, active \in BOOLEAN :
       set_modifier(modifier, active)

NumKeys == 4

\* The scancodes with an entry in the keyboard state array.
Keys == 0..(NumKeys - 1)

\* The scancodes a caller may ask about: the last one has no entry.
Scancodes == 0..NumKeys

KeyStates == [Keys -> BOOLEAN]

all_released == [k \in Keys |-> FALSE]

KeyStateInit ==
  /\ keyboard = all_released
  /\ key_state = [life |-> "unborn", m_previousStates |-> all_released,
                  m_nKeys |-> 0]
  /\ ksAtUpdate = [updated |-> FALSE, states |-> all_released]

\* key_state(): m_states is the array of SDL, m_nKeys its length, and
\* m_previousStates starts with no key pressed.
key_state_ctor ==
  /\ key_state.life = "unborn"
  /\ key_state' = [life |-> "alive", m_previousStates |-> all_released,
                   m_nKeys |-> NumKeys]
  /\ UNCHANGED <<keyboard, ksAtUpdate>>
  /\ UNCHANGED notKeyState

\* SDL_PumpEvents: keys go down and up in the array of SDL, whether or not
\* a key_state has been constructed.
SDL_PumpEvents(states) ==
  /\ states # keyboard
  /\ keyboard' = states
  /\ UNCHANGED <<key_state, ksAtUpdate>>
  /\ UNCHANGED notKeyState

update_keeping_pressed ==
  /\ key_state.life = "alive"
  /\ key_state' =
       [key_state EXCEPT
          !.m_previousStates =
             [k \in Keys |-> key_state.m_previousStates[k] \/ keyboard[k]]]
  /\ ksAtUpdate' = [updated |-> TRUE, states |-> keyboard]
  /\ UNCHANGED keyboard
  /\ UNCHANGED notKeyState

\* key_state::update(): copies the current states to m_previousStates.
update ==
  /\ key_state.life = "alive"
  /\ key_state' = [key_state EXCEPT !.m_previousStates = keyboard]
  /\ ksAtUpdate' = [updated |-> TRUE, states |-> keyboard]
  /\ UNCHANGED keyboard
  /\ UNCHANGED notKeyState

\* Whether the scancode of the key has an entry in the state array.
recognized(code) == (code >= 0) /\ (code < key_state.m_nKeys)

is_pressed(code) == recognized(code) /\ keyboard[code]

is_held(code) ==
  recognized(code) /\ keyboard[code] /\ key_state.m_previousStates[code]

was_just_pressed(code) ==
  recognized(code) /\ keyboard[code] /\ ~key_state.m_previousStates[code]

was_just_released(code) ==
  recognized(code) /\ ~keyboard[code] /\ key_state.m_previousStates[code]

KeyStateNext ==
  \/ key_state_ctor
  \/ \E states \in KeyStates : SDL_PumpEvents(states)
  \/ update

\* The number of the three classifications that hold for a key.
classifications(code) ==
  Cardinality({c \in {"pressed", "released", "held"} :
                 \/ c = "pressed" /\ was_just_pressed(code)
                 \/ c = "released" /\ was_just_released(code)
                 \/ c = "held" /\ is_held(code)})

\* C23: for a constructed key_state and every key of the keyboard,
\* was_just_pressed holds iff the key is pressed now and was not at the
\* previous update, was_just_released iff it is not pressed now and was
\* then, is_held iff it is pressed now and was then; at most one of the
\* three holds, and all of them and is_pressed are false for a key that is
\* not recognized.
C23_ClassifiesAgainstPreviousUpdate ==
  key_state.life = "alive" =>
    /\ \A k \in Keys :
         /\ was_just_pressed(k) <=> (keyboard[k] /\ ~ksAtUpdate.states[k])
         /\ was_just_released(k) <=> (~keyboard[k] /\ ksAtUpdate.states[k])
         /\ is_held(k) <=> (keyboard[k] /\ ksAtUpdate.states[k])
    /\ \A code \in Scancodes :
         /\ classifications(code) <= 1
         /\ ~recognized(code) =>
              /\ ~is_pressed(code) /\ ~is_held(code)
              /\ ~was_just_pressed(code) /\ ~was_just_released(code)

\* C23 witness: after an update() and new events, key 0 has just been
\* pressed, key 1 has just been released and key 2 is held.
C23_Witness ==
  /\ key_state.life = "alive"
  /\ ksAtUpdate.updated
  /\ was_just_pressed(0) /\ ~ksAtUpdate.states[0]
  /\ was_just_released(1) /\ ksAtUpdate.states[1]
  /\ is_held(2) /\ ksAtUpdate.states[2]

(***************************************************************************)
(*                        centurion::SoundEffect                           *)
(***************************************************************************)

MIX_MAX_VOLUME == 128

VolumeMargin == 2

\* The arguments of set_volume: the legal range and some values on each
\* side of it.
Volumes == (0 - VolumeMargin)..(MIX_MAX_VOLUME + VolumeMargin)

get_max_volume == MIX_MAX_VOLUME

SoundInit ==
  /\ sound_effect = [life |-> "unborn", volume |-> 0]
  /\ seLast = [op |-> "none", volume |-> 0]

\* SoundEffect(file): a loaded chunk has the maximum volume.
SoundEffect_ctor ==
  /\ sound_effect.life = "unborn"
  /\ sound_effect' = [life |-> "alive", volume |-> MIX_MAX_VOLUME]
  /\ UNCHANGED seLast
  /\ UNCHANGED notSound

get_volume == sound_effect.volume

set_volume_negative_ignored(volume) ==
  /\ sound_effect.life = "alive"
  /\ sound_effect' =
       [sound_effect EXCEPT
          !.volume = IF volume < 0 THEN @
                     ELSE IF volume > get_max_volume THEN get_max_volume
                     ELSE volume]
  /\ seLast' = [op |-> "set_volume", volume |-> volume]
  /\ UNCHANGED notSound

\* SoundEffect::set_volume(volume): a value outside [0, get_max_volume()]
\* is adjusted to the closest legal value.
set_volume(volume) ==
  /\ sound_effect.life = "alive"
  /\ sound_effect' =
       [sound_effect EXCEPT
          !.volume = IF volume < 0 THEN 0
                     ELSE IF volume > get_max_volume THEN get_max_volume
                     ELSE volume]
  /\ seLast' = [op |-> "set_volume", volume |-> volume]
  /\ UNCHANGED notSound

SoundNext ==
  \/ SoundEffect_ctor
  \/ \E volume \in Volumes : set_volume(volume)

\* C24: after set_volume(v), get_volume() is the legal value closest to v:
\* within [0, get_max_volume()], and equal to v, to 0 or to the maximum as
\* v is inside, below or above the range; a sound effect whose volume was
\* never set reports 128.
C24_VolumeIsClamped ==
  /\ seLast.op = "set_volume" =>
       /\ get_volume \in 0..get_max_volume
       /\ \A legal \in 0..get_max_volume :
            Abs(get_volume - seLast.volume) <= Abs(legal - seLast.volume)
  /\ (sound_effect.life = "alive" /\ seLast.op = "none") => get_volume = 128

\* C24 witness: set_volume(-1) has left the volume at 0.
C24_Witness ==
  /\ seLast = [op |-> "set_volume", volume |-> 0 - 1]
  /\ get_volume = 0

(***************************************************************************)
(*                            Specifications                               *)
(***************************************************************************)

Init ==
  /\ ThreadInit
  /\ SemaphoreInit
  /\ FontCacheInit
  /\ RaceInit
  /\ SurfaceInit
  /\ WrapperInit
  /\ ColorInit
  /\ RectInit
  /\ KeyboardInit
  /\ KeyStateInit
  /\ SoundInit

Next ==
  \/ ThreadNext
  \/ SemaphoreNext
  \/ FontCacheNext
  \/ FontCacheRaceNext
  \/ SurfaceNext
  \/ NativeCreateNext
  \/ WrapperNext
  \/ QueryNext
  \/ HsNext
  \/ BlendNext
  \/ ConvertNext
  \/ CompareNext
  \/ RectNext
  \/ KeyboardNext
  \/ KeyStateNext
  \/ SoundNext

Spec == Init /\ [][Next]_vars

ThreadSpec == Init /\ [][ThreadNext]_vars

SemaphoreSpec == Init /\ [][SemaphoreNext]_vars

FontCacheSpec == Init /\ [][FontCacheNext]_vars

FontCacheRaceSpec == Init /\ [][FontCacheRaceNext]_vars

SurfaceSpec == Init /\ [][SurfaceNext]_vars

NativeCreateSpec == Init /\ [][NativeCreateNext]_vars

WrapperSpec == Init /\ [][WrapperNext]_vars

QuerySpec == Init /\ [][QueryNext]_vars

HsSpec == Init /\ [][HsNext]_vars

BlendSpec == Init /\ [][BlendNext]_vars

ConvertSpec == Init /\ [][ConvertNext]_vars

CompareSpec == Init /\ [][CompareNext]_vars

RectSpec == Init /\ [][RectNext]_vars

KeyboardSpec == Init /\ [][KeyboardNext]_vars

KeyStateSpec == Init /\ [][KeyStateNext]_vars

SoundSpec == Init /\ [][SoundNext]_vars

=============================================================================
